---- MODULE Spec2Model ----
(***************************************************************************)
(* The message classification pass of SkypeLens                            *)
(* (src/src/utils/messageProcessor.ts) as a state machine.                 *)
(*                                                                         *)
(* Representation.  A JavaScript string is a sequence of tokens, each      *)
(* token a TLA+ string standing for one lexical piece of the text: a run   *)
(* of plain text, one complete markup fragment, one JSON delimiter.  The   *)
(* regular expressions and JSON.parse of the source become matchers over   *)
(* token sequences.  A nullable string (string | null) is a sequence of    *)
(* zero or one strings: <<>> is null, <<s>> is the string s.  A function   *)
(* that returns ProcessedMessage | null returns a sequence of zero or one  *)
(* messages.                                                               *)
(***************************************************************************)
EXTENDS Integers, Sequences, FiniteSets, TLC

VARIABLES
    messages,           \* processMessages: the raw records (parameter)
    userId,             \* processMessages: the exported user's id
    swapRoles,          \* processMessages: perspective swap flag
    mediaFiles,         \* processMessages: optional media store
    maxMessages,        \* processMessages: optional limit
    i,                  \* loop index of the pass (0-based as in the source)
    skipIds,            \* context.skipIds
    processedMessages,  \* the output array under construction
    srcIdx,             \* history: srcIdx[k] is the loop index that pushed output k
    pc,                 \* "loop" while the for loop runs, "done" after return
    returned,           \* history: what the earlier passes over the records returned
    args,               \* the arguments of a call of an exported function
    result,             \* what the call returned: <<>> until it returns
    exportData,                 \* store: the loaded export
    selectedConversationId,     \* store
    swappedRoles,               \* store: conversation id -> perspective swapped
    processedMessagesCache,     \* store: conversation id -> {normal, swapped}
    loadedMessageCount,         \* useMessageProcessing
    viewMessages,               \* useMessageProcessing: its processedMessages
    searchQuery,                \* MessageView
    currentMatchIndex,          \* MessageView
    isLoadingMore,              \* MessageView: state, as last committed
    isLoadingAll,               \* MessageView: state, as last committed
    previousScrollHeightRef,    \* useMessageScroll: 0 or the height saved
    transitions,                \* state updates of startTransition not yet committed
    restoreChains,              \* useMessageScroll: running restoreScroll frame loops
    mediaGalleryOpened,         \* MessageView: state, `enabled` of useMediaGallery
    mediaItems,                 \* useMediaGallery: state
    lastProcessedCountRef,      \* useMediaGallery
    processingRef,              \* useMediaGallery
    extractions                 \* useMediaGallery: chunked extractions in flight

\* The state of a classification pass
passVars == <<messages, userId, swapRoles, mediaFiles, maxMessages, i, skipIds,
              processedMessages, srcIdx, pc, returned>>

\* A call of one of the exported pure functions
callVars == <<args, result>>

\* The message store (src/src/store/messageStore.ts)
storeVars == <<exportData, selectedConversationId, swappedRoles,
               processedMessagesCache>>

\* The state of the message view and its hooks
viewVars == <<loadedMessageCount, viewMessages, searchQuery, currentMatchIndex>>

\* The hooks of the message view: useMessageScroll with the loading flags,
\* and useMediaGallery
scrollVars == <<isLoadingMore, isLoadingAll, previousScrollHeightRef, transitions,
                restoreChains>>

galleryVars == <<mediaGalleryOpened, mediaItems, lastProcessedCountRef,
                 processingRef, extractions>>

hookVars == <<scrollVars, galleryVars>>

vars == <<passVars, callVars, storeVars, viewVars, hookVars>>

----------------------------------------------------------------------------
(* Sequence helpers *)

RECURSIVE Flatten(_)
Flatten(ss) == IF ss = <<>> THEN <<>> ELSE Head(ss) \o Flatten(Tail(ss))

IsPrefix(p, s) == Len(p) <= Len(s) /\ SubSeq(s, 1, Len(p)) = p

\* JavaScript truthiness of a string, and of a nullable string
NonEmpty(s) == s # <<>>
Truthy(opt) == opt # <<>> /\ opt[1] # <<>>

\* a || b on strings where a is nullable and b a string
OrElse(opt, s) == IF Truthy(opt) THEN opt[1] ELSE s

\* The least member of a set of positions, 0 for the empty set
Least(S) == IF S = {} THEN 0 ELSE CHOOSE p \in S : \A q \in S : p <= q

\* The greatest member of a set of positions, 0 for the empty set
Greatest(S) == IF S = {} THEN 0 ELSE CHOOSE p \in S : \A q \in S : q <= p

\* match?.[1] for a group that is the single token after position p:
\* null when p = 0
GroupAfter(s, p) == IF p = 0 THEN <<>> ELSE << <<s[p + 1]>> >>

\* a || b || ... || last over strings ("" and null are both falsy, null
\* being written <<>> here as well)
FirstTruthy(ss, last) ==
    IF Least({k \in 1..Len(ss) : ss[k] # <<>>}) = 0 THEN last
    ELSE ss[Least({k \in 1..Len(ss) : ss[k] # <<>>})]

\* opt ?? "" : the string of a nullable string, "" for null
Unwrap(opt) == IF opt = <<>> THEN <<>> ELSE opt[1]

----------------------------------------------------------------------------
(* Tokens of message markup *)

EmojiKnown      == "<ss type=\"smile\">:)</ss>"
EmojiUnknown    == "<ss type=\"zz\">(zz)</ss>"
AnchorRaw       == "<a href=\"u\">link</a>"
AnchorSafe      == "<a href=\"u\" target=\"_blank\" rel=\"noopener noreferrer\">link</a>"
BoldRaw         == "<b>hi</b>"
StrongHi        == "<strong>hi</strong>"
MentionRaw      == "<at id=\"8:bob\">bob</at>"
StrongMention   == "<strong>@bob</strong>"
LocationTag     == "<location/>"
EmptyEmojiTag   == "<e_m/>"
BingRaw         == "<bing-response>answer</bing-response>"
AttributionRaw  == "<attribution>src</attribution>"
ScriptTag       == "<script>x</script>"
ImgOnError      == "<img src=x onerror=alert(1)>"
ItalicRaw       == "<i>hi</i>"
EmOpen          == "<em>"
EmClose         == "</em>"

\* src/src/utils/skypeEmoji.ts is not among the sources: known <ss> emoji
\* wrappers become the emoji character, unknown ones are left for
\* CONTENT_PATTERNS[0].
parseSkypeEmoji(content) ==
    [k \in 1..Len(content) |->
        IF content[k] = EmojiKnown THEN "[emoji smile]" ELSE content[k]]

\* CONTENT_PATTERNS: the eight ordered (pattern, replacement) pairs, each as
\* the rewrite of one token (a replacement by "" removes the token).
Pattern1(t) == IF t = EmojiUnknown THEN <<"(zz)">> ELSE <<t>>
Pattern2(t) == IF t = AnchorRaw THEN <<AnchorSafe>> ELSE <<t>>
Pattern3(t) == IF t = BoldRaw THEN <<StrongHi>> ELSE <<t>>
Pattern4(t) == IF t = MentionRaw THEN <<StrongMention>> ELSE <<t>>
Pattern5(t) == IF t = LocationTag THEN <<>> ELSE <<t>>
Pattern6(t) == IF t = EmptyEmojiTag THEN <<>> ELSE <<t>>
Pattern7(t) == IF t = BingRaw THEN <<"answer">> ELSE <<t>>
Pattern8(t) == IF t = AttributionRaw THEN <<>> ELSE <<t>>

\* The rewrite of one token by the n-th pair
PatternAt(n, t) ==
    CASE n = 1 -> Pattern1(t)
      [] n = 2 -> Pattern2(t)
      [] n = 3 -> Pattern3(t)
      [] n = 4 -> Pattern4(t)
      [] n = 5 -> Pattern5(t)
      [] n = 6 -> Pattern6(t)
      [] n = 7 -> Pattern7(t)
      [] n = 8 -> Pattern8(t)

\* parsed.replace(pattern, replacement) for the n-th pair
ReplaceAll(n, s) == Flatten([k \in 1..Len(s) |-> PatternAt(n, s[k])])

\* for (const [pattern, replacement] of CONTENT_PATTERNS) ...
CONTENT_PATTERNS(s) ==
    ReplaceAll(8, ReplaceAll(7, ReplaceAll(6, ReplaceAll(5,
    ReplaceAll(4, ReplaceAll(3, ReplaceAll(2, ReplaceAll(1, s))))))))

\* Tokens that open a tag whose attributes follow as further tokens, and
\* the tokens that end such a tag
TagStartTokens == {"<URIObject", "<partlist", "<part identity=\"",
                   "<OriginalName v=\"", "<FileSize v=\""}
TagEndTokens   == {">", "\">", "\"/>"}

\* Tokens that are a complete tag outside the allow-list, with no text
BareTagTokens ==
    { "</URIObject>", "</partlist>", "</part>", "<target>", "</target>",
      "<value>", "</value>", "<name>", "</name>", "<duration>", "</duration>",
      LocationTag, EmptyEmojiTag, ImgOnError }

\* DOMPurify.sanitize on one complete fragment: tags outside
\* {strong, a, br, sup, em} lose the tag and keep their text, script
\* elements lose their text too; text and allowed markup pass unchanged.
PurifyToken(t) ==
    CASE t = ScriptTag      -> <<>>
      [] t \in BareTagTokens -> <<>>
      [] t = ItalicRaw      -> <<"hi">>
      [] t = BoldRaw        -> <<"hi">>
      [] t = MentionRaw     -> <<"bob">>
      [] t = EmojiKnown     -> <<":)">>
      [] t = EmojiUnknown   -> <<"(zz)">>
      [] t = BingRaw        -> <<"answer">>
      [] t = AttributionRaw -> <<"src">>
      [] OTHER              -> <<t>>

\* DOMPurify.sanitize(parsed, PURIFY_CONFIG): a tag outside the allow-list
\* that is spread over several tokens is dropped from its opening token
\* through the token that ends it (through the end when nothing ends it).
RECURSIVE DOMPurifySanitize(_)
DOMPurifySanitize(s) ==
    IF s = <<>> THEN <<>>
    ELSE IF Head(s) \in TagStartTokens
    THEN IF \A q \in 2..Len(s) : s[q] \notin TagEndTokens THEN <<>>
         ELSE DOMPurifySanitize(
                  SubSeq(s, Least({q \in 2..Len(s) : s[q] \in TagEndTokens}) + 1,
                         Len(s)))
    ELSE PurifyToken(Head(s)) \o DOMPurifySanitize(Tail(s))

parseMessageContent(content) ==
    IF content = <<>> THEN <<>>
    ELSE DOMPurifySanitize(CONTENT_PATTERNS(parseSkypeEmoji(content)))

----------------------------------------------------------------------------
(* Names and base message *)

\* Tokens matched by ^\d+: at the start of a Skype id
DigitColon == {"8:", "19:", "28:"}

\* cleanDisplayName: null for null or "", the part after the leading
\* "<digits>:" when something follows it, the name itself otherwise.
cleanDisplayName(displayName) ==
    IF ~Truthy(displayName) THEN <<>>
    ELSE IF displayName[1][1] \in DigitColon /\ Len(displayName[1]) >= 2
         THEN <<Tail(displayName[1])>>
         ELSE displayName

\* An isOwner that forgets the perspective swap
isOwnerIgnoringSwap(from, context) == from = context.userId

\* swapRoles ? message.from !== userId : message.from === userId
isOwnerOf(from, context) ==
    IF context.swapRoles THEN from # context.userId ELSE from = context.userId

createBaseMessage(message, context, content, type) ==
    [ id                  |-> message.id,
      displayName         |-> cleanDisplayName(message.displayName),
      timestamp           |-> message.originalarrivaltime,
      content             |-> content,
      type                |-> type,
      from                |-> message.from,
      isOwner             |-> isOwnerOf(message.from, context),
      originalMessageType |-> message.messagetype,
      mediaUrl            |-> <<>> ]

----------------------------------------------------------------------------
(* Translation records *)

TrOpen      == "{\"translations\":[{\"translation\":\""
TrClose     == "\",\"loc\":\"en\"}],\"oloc\":\"es\",\"oid\":\"1\"}"
TrEmptyList == "{\"translations\":[],\"oloc\":\"es\",\"oid\":\"1\"}"

\* A parse that never finds the translation
parseTranslationContentNull(content) == <<>>

\* JSON.parse(content).translations[0]?.translation || null, null on any throw
parseTranslationContent(content) ==
    IF Len(content) >= 3 /\ content[1] = TrOpen /\ content[Len(content)] = TrClose
    THEN <<SubSeq(content, 2, Len(content) - 1)>>
    ELSE <<>>

Tag_RichText == <<"RichText">>

\* nextMessage is a sequence of zero (undefined) or one record.
NextIsRichText(nextMessage) ==
    nextMessage # <<>> /\ nextMessage[1].messagetype = Tag_RichText

\* The two return statements of handleTranslation
TranslationPair(message, nextMessage, context) ==
    createBaseMessage([nextMessage[1] EXCEPT !.from = message.from], context,
                      parseMessageContent(nextMessage[1].content), "text")

TranslationAlone(message, context) ==
    createBaseMessage(message, context,
                      parseMessageContent(
                          OrElse(parseTranslationContent(message.content),
                                 message.content)),
                      "text")

handleTranslationSkipsNothing(message, nextMessage, context) ==
    IF message.from = context.userId /\ NextIsRichText(nextMessage)
    THEN [ msg     |-> <<TranslationPair(message, nextMessage, context)>>,
           skipIds |-> context.skipIds ]
    ELSE [ msg     |-> <<TranslationAlone(message, context)>>,
           skipIds |-> context.skipIds ]

\* A handleTranslation that adds the id of the record itself to skipIds
handleTranslationSkipsItself(message, nextMessage, context) ==
    IF message.from = context.userId /\ NextIsRichText(nextMessage)
    THEN [ msg     |-> <<TranslationPair(message, nextMessage, context)>>,
           skipIds |-> context.skipIds \cup {message.id} ]
    ELSE [ msg     |-> <<TranslationAlone(message, context)>>,
           skipIds |-> IF NextIsRichText(nextMessage)
                       THEN context.skipIds \cup {message.id}
                       ELSE context.skipIds ]

handleTranslation(message, nextMessage, context) ==
    IF message.from = context.userId /\ NextIsRichText(nextMessage)
    THEN [ msg     |-> <<TranslationPair(message, nextMessage, context)>>,
           skipIds |-> context.skipIds \cup {nextMessage[1].id} ]
    ELSE [ msg     |-> <<TranslationAlone(message, context)>>,
           skipIds |-> IF NextIsRichText(nextMessage)
                       THEN context.skipIds \cup {nextMessage[1].id}
                       ELSE context.skipIds ]

----------------------------------------------------------------------------
(* Media records *)

UriObjTag    == "<URIObject"
UriAttr      == " uri=\"https://api.asm.skype.com/v1/objects/"
TypeAttr     == " type=\""
Quote        == "\""
TagClose     == ">"
UriObjEnd    == "</URIObject>"
PicParam     == "?pic="
FileParam    == "&file="
OrigNameOpen == "<OriginalName v=\""
FileSizeOpen == "<FileSize v=\""
SelfClose    == "\"/>"

\* Tokens matched by [a-zA-Z0-9-]+
MediaIdTokens == {"0-weu-d1-aa", "0-weu-d2-bb"}

\* p lies inside an opening <URIObject ...> tag: <URIObject[^>]* precedes it
InUriObjTag(s, p) ==
    \E q \in 1..(p - 1) :
        s[q] = UriObjTag /\ \A r \in (q + 1)..(p - 1) : s[r] # TagClose

AcceptUri(t, p) ==
    /\ p + 2 <= Len(t)
    /\ t[p + 1] \in MediaIdTokens
    /\ t[p + 2] = Quote
    /\ InUriObjTag(t, p)

AcceptParam(t, p) == p + 1 <= Len(t) /\ t[p + 1] \in MediaIdTokens

uriObjectPattern(s) == GroupAfter(s, Least({p \in 1..Len(s) : s[p] = UriAttr /\ AcceptUri(s, p)}))
picPattern(s)       == GroupAfter(s, Least({p \in 1..Len(s) : s[p] = PicParam /\ AcceptParam(s, p)}))
filePattern(s)      == GroupAfter(s, Least({p \in 1..Len(s) : s[p] = FileParam /\ AcceptParam(s, p)}))

\* first capturing match of the three patterns, or null
extractMediaId(content) ==
    FirstTruthy(<< uriObjectPattern(content), picPattern(content),
                   filePattern(content) >>, <<>>)

\* Tokens matched by \d+ and their parseInt(_, 10) values
SizeTokens == {"512", "2048", "1572864"}
parseInt(tok) ==
    CASE tok = "512"     -> 512
      [] tok = "2048"    -> 2048
      [] tok = "1572864" -> 1572864

\* x.toFixed(1) for x = num / den, den a power of two
toFixed1(num, den) ==
    LET tenths == (num * 10 * 2 + den) \div (2 * den)
    IN  ToString(tenths \div 10) \o "." \o ToString(tenths % 10)

formatFileSize(fileSizeBytes) ==
    IF fileSizeBytes >= 1024 * 1024
    THEN toFixed1(fileSizeBytes, 1024 * 1024) \o " MB"
    ELSE toFixed1(fileSizeBytes, 1024) \o " KB"

\* <OriginalName v="([^"]+)"(?:\s*\/>|><\/OriginalName>)
AcceptOriginalName(t, p) ==
    /\ p + 2 <= Len(t)
    /\ t[p + 1] \notin {Quote, SelfClose}
    /\ t[p + 2] = SelfClose

OriginalNameMatch(s) == GroupAfter(s, Least({p \in 1..Len(s) : s[p] = OrigNameOpen /\ AcceptOriginalName(s, p)}))

\* <FileSize v="(\d+)"(?:\s*\/>|><\/FileSize>)
AcceptFileSize(t, p) ==
    /\ p + 2 <= Len(t)
    /\ t[p + 1] \in SizeTokens
    /\ t[p + 2] = SelfClose

FileSizeMatch(s) == Unwrap(GroupAfter(s, Least({p \in 1..Len(s) : s[p] = FileSizeOpen /\ AcceptFileSize(s, p)})))

\* <URIObject[^>]*type="([^"]+)"
AcceptUriType(t, p) ==
    /\ p + 2 <= Len(t)
    /\ t[p + 1] \notin {Quote, SelfClose}
    /\ t[p + 2] = Quote
    /\ InUriObjTag(t, p)

UriTypeMatch(s) == Unwrap(GroupAfter(s, Least({p \in 1..Len(s) : s[p] = TypeAttr /\ AcceptUriType(s, p)})))

\* `${icon}<em>${filename}</em>${sizeText}`, size being the FileSize match
\* (<<>> when there is none)
FileInfo(icon, filename, size) ==
    IF size # <<>>
    THEN <<icon, EmOpen>> \o filename \o
         <<EmClose, " (" \o formatFileSize(parseInt(size[1])) \o ")">>
    ELSE <<icon, EmOpen>> \o filename \o <<EmClose>>

parseGenericFile(content) ==
    FileInfo("[paperclip] ",
             OrElse(OriginalNameMatch(content), <<"Unknown file">>),
             FileSizeMatch(content))

\* type.toLowerCase().startsWith("video")
VideoTypeTokens == {"Video.1/Message.1", "video/mp4"}
\* /\.(mp4|avi|mov|wmv|flv|webm|mkv|m4v)$/i
VideoFileNames  == {"clip.mp4", "CLIP.MOV"}

isVideo(filename, type) ==
    \/ (type # <<>> /\ type[1] \in VideoTypeTokens)
    \/ (Len(filename) = 1 /\ filename[1] \in VideoFileNames)

MediaFileInfo(filename, type, size) ==
    FileInfo(IF isVideo(filename, type) THEN "[video] " ELSE "[camera] ",
             filename, size)

parseMediaFileInfo(content) ==
    MediaFileInfo(OrElse(OriginalNameMatch(content), <<"Unknown file">>),
                  UriTypeMatch(content), FileSizeMatch(content))

\* handleMediaMessage once mediaId and hasMedia are known
MediaMessageOf(message, context, mediaId, hasMedia) ==
    IF hasMedia
    THEN [ createBaseMessage(message, context,
               parseMessageContent(message.content), "media")
           EXCEPT !.mediaUrl = mediaId ]
    ELSE createBaseMessage(message, context,
             parseMediaFileInfo(message.content), "text")

\* A hasMedia that would look the id up in the store
hasMediaInStore(mediaId, context) ==
    /\ Truthy(mediaId)
    /\ context.mediaFiles # <<>>
    /\ mediaId[1] \in context.mediaFiles[1]

\* Boolean(mediaId && mediaFiles)
hasMediaOf(mediaId, context) == Truthy(mediaId) /\ context.mediaFiles # <<>>

MediaMessageWith(message, context, mediaId) ==
    MediaMessageOf(message, context, mediaId, hasMediaOf(mediaId, context))

handleMediaMessage(message, context) ==
    MediaMessageWith(message, context, extractMediaId(message.content))

handleSystemMessageKeepsOwner(message, context, content, type) ==
    [ createBaseMessage(message, context, content, type)
      EXCEPT !.displayName = <<>> ]

handleSystemMessage(message, context, content, type) ==
    [ createBaseMessage(message, context, content, type)
      EXCEPT !.displayName = <<>>, !.isOwner = FALSE ]

----------------------------------------------------------------------------
(* System event parsers *)

TargetOpen   == "<target>"
TargetClose  == "</target>"
ValueOpen    == "<value>"
ValueClose   == "</value>"
PartlistTag  == "<partlist"
PartlistEnd  == "</partlist>"
PartOpen     == "<part identity=\""
PartTagEnd   == "\">"
PartClose    == "</part>"
NameOpen     == "<name>"
NameClose    == "</name>"
DurationOpen == "<duration>"
DurationClose == "</duration>"

\* Tokens that contain the character '<' (excluded by [^<]+)
LtTokens ==
    { EmojiKnown, EmojiUnknown, AnchorRaw, AnchorSafe, BoldRaw, StrongHi,
      MentionRaw, StrongMention, LocationTag, EmptyEmojiTag, BingRaw,
      AttributionRaw, ScriptTag, ImgOnError, ItalicRaw, EmOpen, EmClose,
      UriObjTag, UriObjEnd, OrigNameOpen, FileSizeOpen,
      TargetOpen, TargetClose, ValueOpen, ValueClose, PartlistTag,
      PartlistEnd, PartOpen, PartClose, NameOpen, NameClose,
      DurationOpen, DurationClose }

\* Tokens that end in ':' (split(":") cuts after them)
ColonTokens == DigitColon \cup {"live:"}

\* The first match of  open ([^<]+) close  at or after position from:
\* [at |-> position of open, end |-> position of close], at = 0 when none.
RECURSIVE TagMatchFrom(_, _, _, _)
TagMatchAt(s, open, close, from, end) ==
    IF s[from] = open /\ end # 0
    THEN [at |-> from, end |-> end]
    ELSE TagMatchFrom(s, open, close, from + 1)

TagMatchFrom(s, open, close, from) ==
    IF from > Len(s) THEN [at |-> 0, end |-> 0]
    ELSE TagMatchAt(s, open, close, from,
             Least({q \in (from + 2)..Len(s) :
                      /\ s[q] = close
                      /\ \A r \in (from + 1)..(q - 1) : s[r] \notin LtTokens}))

\* All matches of  open ([^<]+) close  (the g flag): the captured groups in order
RECURSIVE TagMatchAll(_, _, _, _)
TagMatchRest(s, open, close, m) ==
    IF m.at = 0 THEN <<>>
    ELSE <<SubSeq(s, m.at + 1, m.end - 1)>> \o
         TagMatchAll(s, open, close, m.end + 1)

TagMatchAll(s, open, close, from) ==
    TagMatchRest(s, open, close, TagMatchFrom(s, open, close, from))

\* The captured group of a match m: null when there is no match
TagGroup(s, m) == IF m.at = 0 THEN <<>> ELSE <<SubSeq(s, m.at + 1, m.end - 1)>>

\* First match of  open ([^<]+) close : null or the captured group
TagMatchFirst(s, open, close) == TagGroup(s, TagMatchFrom(s, open, close, 1))

\* target.split(":").pop() || ""
LastColonPart(name) ==
    SubSeq(name, Greatest({p \in 1..Len(name) : name[p] \in ColonTokens}) + 1,
           Len(name))

\* parts.join(sep)
RECURSIVE Join(_, _)
Join(parts, sep) ==
    IF parts = <<>> THEN <<>>
    ELSE IF Len(parts) = 1 THEN parts[1]
    ELSE parts[1] \o <<sep>> \o Join(Tail(parts), sep)

Tag_AddMember == <<"ThreadActivity", "/AddMember">>
Tag_HistoryDisclosedUpdate == <<"ThreadActivity", "/HistoryDisclosedUpdate">>
Tag_JoiningEnabledUpdate == <<"ThreadActivity", "/JoiningEnabledUpdate">>

\* value.toLowerCase() === "true"
TrueTokens == {"true", "True"}

\* The AddMember branch once the target matches are known
AddMemberText(targetMatches) ==
    IF targetMatches = <<>> THEN <<>>
    ELSE IF \A k \in 1..Len(targetMatches) : LastColonPart(targetMatches[k]) = <<>>
         THEN <<>>
         ELSE << <<"Added ">> \o
                 Join(SelectSeq([k \in 1..Len(targetMatches) |->
                                    LastColonPart(targetMatches[k])], NonEmpty),
                      ", ") \o
                 <<" to the conversation">> >>

\* valueMatch[1].toLowerCase() === "true"
ValueIsTrue(valueMatch) ==
    Len(valueMatch[1]) = 1 /\ valueMatch[1][1] \in TrueTokens

\* The branch of the value updates once the value match is known
ValueUpdateText(messagetype, valueMatch) ==
    IF valueMatch = <<>> THEN <<>>
    ELSE IF messagetype = Tag_HistoryDisclosedUpdate
         THEN IF ValueIsTrue(valueMatch)
              THEN << <<"Chat history is now visible">> >>
              ELSE << <<"Chat history is now hidden">> >>
    ELSE IF messagetype = Tag_JoiningEnabledUpdate
         THEN IF ValueIsTrue(valueMatch)
              THEN << <<"Anyone can join this conversation">> >>
              ELSE << <<"Joining this conversation is restricted">> >>
    ELSE <<>>

\* Returns a nullable string.
parseThreadActivity(message) ==
    IF message.messagetype = Tag_AddMember
    THEN AddMemberText(TagMatchAll(message.content, TargetOpen, TargetClose, 1))
    ELSE ValueUpdateText(message.messagetype,
                         TagMatchFirst(message.content, ValueOpen, ValueClose))

----------------------------------------------------------------------------
(* Notice and PopCard *)

NoticeOpen  == "[{\"attachments\":[{\"content\":{"
NoticeClose == "}}]}]"
PopCardOpen == "[{\"content\":{"
PopCardClose == "}}]"
TitleKey    == "\"title\":"
TextKey     == "\"text\":"

JsonTokens == {NoticeOpen, NoticeClose, PopCardOpen, PopCardClose, TitleKey, TextKey}

\* JSON.parse of a card payload  open {"title": t, "text": x} close :
\* [ok |-> parsed and the object was found, title, text], a missing or
\* empty field being <<>>.
KeyPositions(mid, key) == {p \in 1..Len(mid) : mid[p] = key}

\* The payload is well-formed JSON of the expected nesting
CardShape(content, open, close, mid, tAt, xAt) ==
    /\ Len(content) >= 2 /\ content[1] = open /\ content[Len(content)] = close
    /\ Cardinality(tAt) <= 1 /\ Cardinality(xAt) <= 1
    /\ \A p \in 1..Len(mid) : mid[p] \in JsonTokens => mid[p] \in {TitleKey, TextKey}
    /\ (mid # <<>> => mid[1] \in {TitleKey, TextKey})
    /\ \A p \in tAt : \A q \in xAt : p < q

CardFields(ok, mid, tPos, xPos) ==
    IF ~ok THEN [ok |-> FALSE, title |-> <<>>, text |-> <<>>]
    ELSE [ ok    |-> TRUE,
           title |-> IF tPos = 0 THEN <<>>
                     ELSE SubSeq(mid, tPos + 1,
                                 IF xPos = 0 THEN Len(mid) ELSE xPos - 1),
           text  |-> IF xPos = 0 THEN <<>>
                     ELSE SubSeq(mid, xPos + 1, Len(mid)) ]

CardOf(content, open, close, mid, tAt, xAt) ==
    CardFields(CardShape(content, open, close, mid, tAt, xAt), mid,
               Least(tAt), Least(xAt))

CardBody(content, open, close, mid) ==
    CardOf(content, open, close, mid,
           KeyPositions(mid, TitleKey), KeyPositions(mid, TextKey))

ParseCard(content, open, close) ==
    CardBody(content, open, close, SubSeq(content, 2, Len(content) - 1))

\* attachment?.title || attachment?.text || "System Notice"
NoticeText(attachment) ==
    IF ~attachment.ok THEN <<"System Notice">>
    ELSE FirstTruthy(<<attachment.title, attachment.text>>, <<"System Notice">>)

\* A parseNotice without the fixed fallback text
parseNoticeNoFallback(message) ==
    FirstTruthy(<< ParseCard(message.content, NoticeOpen, NoticeClose).title,
                   ParseCard(message.content, NoticeOpen, NoticeClose).text >>, <<>>)

parseNotice(message) ==
    NoticeText(ParseCard(message.content, NoticeOpen, NoticeClose))

PopCardText(content) ==
    IF ~content.ok THEN <<"System Message">>
    ELSE IF content.title # <<>> /\ content.text # <<>>
         THEN content.title \o <<": ">> \o content.text
    ELSE FirstTruthy(<<content.title, content.text>>, <<"System Message">>)

parsePopCard(message) ==
    PopCardText(ParseCard(message.content, PopCardOpen, PopCardClose))

----------------------------------------------------------------------------
(* Call events *)

\* String.prototype.toLowerCase, token by token: the tokens listed here
\* are the only ones with upper-case letters that reach it.
ToLowerToken(t) ==
    CASE t = "Alice" -> "alice"
      [] t = "Bob"   -> "bob"
      [] t = "Carol" -> "carol"
      [] t = "A"     -> "a"
      [] t = "B"     -> "b"
      [] t = "Ended" -> "ended"
      [] t = "Started" -> "started"
      [] OTHER       -> t

toLowerCase(s) == [k \in 1..Len(s) |-> ToLowerToken(s[k])]

\* String.prototype.trim: leading and trailing blank tokens removed
RECURSIVE trim(_)
trim(s) ==
    IF s = <<>> THEN <<>>
    ELSE IF s[1] = " " THEN trim(Tail(s))
    ELSE IF s[Len(s)] = " " THEN trim(SubSeq(s, 1, Len(s) - 1))
    ELSE s

\* Tokens that contain the character '"' (excluded by [^"]+)
QuoteTokens == {Quote, SelfClose, PartTagEnd, PartOpen, TypeAttr, UriAttr,
                OrigNameOpen, FileSizeOpen}

\* Durations are kept in tenths of a second.  parseFloat of the captured
\* group: null stands for NaN.
parseFloat(group) ==
    CASE group[1] = "5"    -> <<50>>
      [] group[1] = "17"   -> <<170>>
      [] group[1] = "42"   -> <<420>>
      [] group[1] = "59.9" -> <<599>>
      [] group[1] = "60"   -> <<600>>
      [] group[1] = "125"  -> <<1250>>
      [] group[1] = "0"    -> <<0>>
      [] OTHER             -> <<>>

formatCallDuration(seconds) ==
    LET minutes          == seconds \div 600
        remainingSeconds == (seconds % 600) \div 10
    IN  IF minutes > 0
        THEN ToString(minutes) \o "m " \o ToString(remainingSeconds) \o "s"
        ELSE ToString(remainingSeconds) \o "s"

normaliseParticipantName(name, identity) ==
    FirstTruthy(<< Unwrap(cleanDisplayName(<<trim(name)>>)),
                   Unwrap(cleanDisplayName(<<identity>>)),
                   trim(name),
                   identity >>,
                <<"Unknown participant">>)

\* CALL_EVENT_PATTERNS.Part from position from on: the first match of
\* <part[^>]*identity="([^"]+)"[^>]*>([\s\S]*?)</part>
RECURSIVE PartMatchFrom(_, _)
PartMatchEnd(s, from, tagEnd, end) ==
    IF s[from] = PartOpen /\ tagEnd # 0 /\ end # 0
    THEN [at |-> from, tagEnd |-> tagEnd, end |-> end]
    ELSE PartMatchFrom(s, from + 1)

PartMatchTag(s, from, tagEnd) ==
    PartMatchEnd(s, from, tagEnd,
                 Least({e \in (tagEnd + 1)..Len(s) : s[e] = PartClose}))

PartMatchFrom(s, from) ==
    IF from > Len(s) THEN [at |-> 0, tagEnd |-> 0, end |-> 0]
    ELSE PartMatchTag(s, from,
             Least({q \in (from + 2)..Len(s) :
                      /\ s[q] = PartTagEnd
                      /\ \A r \in (from + 1)..(q - 1) : s[r] \notin QuoteTokens}))

\* participantData after the body of `if (!seenIdentities.has(identityKey))`
PushParticipant(participantData, seenIdentities, identity, partBody) ==
    IF toLowerCase(identity) \in seenIdentities THEN participantData
    ELSE Append(participantData,
                [ identity |-> identity,
                  name     |-> normaliseParticipantName(
                                   Unwrap(TagMatchFirst(partBody, NameOpen, NameClose)),
                                   identity) ])

\* seconds = parseFloat(durationMatch[1]): null for no match or NaN
SecondsOf(durationMatch) ==
    IF durationMatch = <<>> THEN <<>> ELSE parseFloat(durationMatch[1])

\* maxDuration = Math.max(maxDuration, seconds)
MaxWith(maxDuration, seconds) ==
    IF seconds # <<>> /\ seconds[1] > maxDuration THEN seconds[1] ELSE maxDuration

\* The while loop of extractCallDetails from position from on
RECURSIVE ExtractCallLoop(_, _, _, _, _)
\* A loop body that reads the duration only of a participant not seen before
CallLoopBodySeenOnly(content, resume, identity, partBody, participantData, seenIdentities, maxDuration) ==
    ExtractCallLoop(content, resume,
        PushParticipant(participantData, seenIdentities, identity, partBody),
        seenIdentities \cup {toLowerCase(identity)},
        IF toLowerCase(identity) \in seenIdentities THEN maxDuration
        ELSE MaxWith(maxDuration,
                     SecondsOf(TagMatchFirst(partBody, DurationOpen, DurationClose))))

CallLoopBody(content, resume, identity, partBody, participantData, seenIdentities, maxDuration) ==
    ExtractCallLoop(content, resume,
        PushParticipant(participantData, seenIdentities, identity, partBody),
        seenIdentities \cup {toLowerCase(identity)},
        MaxWith(maxDuration,
                SecondsOf(TagMatchFirst(partBody, DurationOpen, DurationClose))))

CallLoopStep(content, partMatch, participantData, seenIdentities, maxDuration) ==
    IF partMatch.at = 0
    THEN [ participants |-> participantData,
           maxDuration  |-> IF maxDuration > 0 THEN <<maxDuration>> ELSE <<>> ]
    ELSE CallLoopBody(content, partMatch.end + 1,
             SubSeq(content, partMatch.at + 1, partMatch.tagEnd - 1),
             SubSeq(content, partMatch.tagEnd + 1, partMatch.end - 1),
             participantData, seenIdentities, maxDuration)

ExtractCallLoop(content, from, participantData, seenIdentities, maxDuration) ==
    CallLoopStep(content, PartMatchFrom(content, from),
                 participantData, seenIdentities, maxDuration)

extractCallDetails(content) == ExtractCallLoop(content, 1, <<>>, {}, 0)

\* <partlist[^>]*type="([^"]+)": null or the captured type
AcceptPartlistType(t, p) ==
    /\ p + 2 <= Len(t)
    /\ t[p + 1] \notin QuoteTokens
    /\ t[p + 2] = Quote
    /\ \E q \in 1..(p - 1) :
          t[q] = PartlistTag /\ \A r \in (q + 1)..(p - 1) : t[r] # TagClose

PartlistTypeMatch(s) ==
    Unwrap(GroupAfter(s, Least({p \in 1..Len(s) : s[p] = TypeAttr /\ AcceptPartlistType(s, p)})))

Bullet == " (bullet) "

\* cleanDisplayName(identity)?.toLowerCase() ?? identity.toLowerCase()
cleanLowerOf(clean, identity) ==
    IF clean # <<>> THEN toLowerCase(clean[1]) ELSE toLowerCase(identity)

cleanLower(identity) == cleanLowerOf(cleanDisplayName(<<identity>>), identity)

\* participantData.map(...): the identities normalised for comparison
participantsOf(participantData) ==
    [k \in 1..Len(participantData) |->
        [ identityLower      |-> toLowerCase(participantData[k].identity),
          cleanIdentityLower |-> cleanLower(participantData[k].identity),
          label              |-> participantData[k].name ]]

\* s[k], or null for k = 0
AtOrNull(s, k) == IF k = 0 THEN <<>> ELSE <<s[k]>>

\* participants.find(...): the first participant who is not the user
otherParticipant(participants, userIdLower, userCleanLower) ==
    AtOrNull(participants,
             Least({k \in 1..Len(participants) :
                      /\ participants[k].identityLower # userIdLower
                      /\ participants[k].cleanIdentityLower # userCleanLower}))

\* A viewer that is the exported user whatever the perspective
viewerOfIgnoringSwap(swap, other, userIdLower, userCleanLower) ==
    [ identityLower |-> userIdLower, cleanLower |-> userCleanLower ]

\* viewerIdentityLower and viewerCleanLower after the `if (swapRoles)` block
viewerOf(swap, other, userIdLower, userCleanLower) ==
    IF swap /\ other # <<>>
    THEN [ identityLower |-> other[1].identityLower,
           cleanLower    |-> other[1].cleanIdentityLower ]
    ELSE [ identityLower |-> userIdLower, cleanLower |-> userCleanLower ]

\* participants.map(...): the viewer becomes "You"
participantLabels(participants, viewer) ==
    [k \in 1..Len(participants) |->
        IF \/ participants[k].identityLower = viewer.identityLower
           \/ participants[k].cleanIdentityLower = viewer.cleanLower
        THEN <<"You">>
        ELSE participants[k].label]

\* participantsText
participantsTextOf(participants, swap, userIdLower, userCleanLower) ==
    Join(participantLabels(participants,
             viewerOf(swap,
                      otherParticipant(participants, userIdLower, userCleanLower),
                      userIdLower, userCleanLower)),
         ", ")

\* participantsText ? `${head} (bullet) ${participantsText}` : head
WithNames(head, participantsText) ==
    IF participantsText # <<>> THEN head \o <<Bullet>> \o participantsText
    ELSE head

\* The return statements of parseCallEvent
CallText(rawType, maxDuration, participantsText) ==
    IF rawType = <<>> THEN WithNames(<<"Call event">>, participantsText)
    ELSE IF rawType[1] = "started" THEN WithNames(<<"Call started">>, participantsText)
    ELSE IF rawType[1] = "missed" THEN WithNames(<<"Missed call">>, participantsText)
    ELSE IF rawType[1] = "ended"
         THEN IF maxDuration # <<>>
              THEN WithNames(<<"Call ended", Bullet,
                               formatCallDuration(maxDuration[1])>>, participantsText)
              ELSE WithNames(<<"Call ended">>, participantsText)
    ELSE WithNames(<<"Call ", rawType[1]>>, participantsText)

CallEventOf(typeMatch, details, context) ==
    CallText(toLowerCase(typeMatch), details.maxDuration,
             participantsTextOf(participantsOf(details.participants),
                                context.swapRoles,
                                toLowerCase(context.userId),
                                cleanLower(context.userId)))

parseCallEvent(message, context) ==
    CallEventOf(PartlistTypeMatch(message.content),
                extractCallDetails(message.content), context)

----------------------------------------------------------------------------
(* processMessage: dispatch on messagetype *)

Tag_MediaAlbum  == <<"RichText", "/Media_Album">>
Tag_Translation == <<"Translation">>
Tag_UriObject   == <<"RichText", "/UriObject">>
Tag_MediaVideo  == <<"RichText", "/Media_Video">>
Tag_GenericFile == <<"RichText", "/Media_GenericFile">>
Tag_Notice      == <<"Notice">>
Tag_PopCard     == <<"PopCard">>
Tag_Text        == <<"Text">>
Prefix_ThreadActivity == <<"ThreadActivity">>
Prefix_EventCall      == <<"Event", "/Call">>
Prefix_InviteFree     == <<"InviteFreeRelationshipChanged">>

\* A comparison with === in place of startsWith
startsWithExactly(messagetype, prefix) == messagetype = prefix

\* messagetype.startsWith(prefix)
startsWith(messagetype, prefix) == IsPrefix(prefix, messagetype)

\* A skipIds.has that never finds the id
skipIdsHasNothing(context, id) == FALSE

\* context.skipIds.has(id)
skipIdsHas(context, id) == id \in context.skipIds

Emit(m, context) == [msg |-> <<m>>, skipIds |-> context.skipIds]
Drop(context)    == [msg |-> <<>>, skipIds |-> context.skipIds]

\* if (systemContent) return handleSystemMessage(...); return null
EmitSystemContent(message, context, systemContent) ==
    IF Truthy(systemContent)
    THEN Emit(handleSystemMessage(message, context, systemContent[1], "system"),
              context)
    ELSE Drop(context)

\* Returns [msg |-> the ProcessedMessage or null, skipIds |-> context.skipIds
\* after the call].
processMessage(message, nextMessage, context) ==
    LET messagetype == message.messagetype
    IN  IF skipIdsHas(context, message.id) THEN Drop(context)
        ELSE IF messagetype = Tag_MediaAlbum THEN Drop(context)
        ELSE IF messagetype = Tag_Translation
             THEN handleTranslation(message, nextMessage, context)
        ELSE IF messagetype = Tag_UriObject \/ messagetype = Tag_MediaVideo
             THEN Emit(handleMediaMessage(message, context), context)
        ELSE IF messagetype = Tag_GenericFile
             THEN Emit(createBaseMessage(message, context,
                           parseGenericFile(message.content), "text"), context)
        ELSE IF messagetype = Tag_RichText
             THEN Emit(createBaseMessage(message, context,
                           parseMessageContent(message.content), "text"), context)
        ELSE IF startsWith(messagetype, Prefix_ThreadActivity)
             THEN EmitSystemContent(message, context, parseThreadActivity(message))
        ELSE IF startsWith(messagetype, Prefix_EventCall)
             THEN Emit(createBaseMessage(message, context,
                           parseCallEvent(message, context), "call"), context)
        ELSE IF messagetype = Tag_Notice
             THEN Emit(handleSystemMessage(message, context,
                           parseNotice(message), "notice"), context)
        ELSE IF messagetype = Tag_PopCard
             THEN Emit(handleSystemMessage(message, context,
                           parsePopCard(message), "notice"), context)
        ELSE IF startsWith(messagetype, Prefix_InviteFree)
             THEN Emit(handleSystemMessage(message, context,
                           parseMessageContent(message.content), "system"), context)
        ELSE IF messagetype = Tag_Text
             THEN Emit(createBaseMessage(message, context, message.content, "text"),
                       context)
        ELSE Emit(createBaseMessage(message, context,
                      parseMessageContent(message.content), "text"), context)

----------------------------------------------------------------------------
(* processMessages: the pass *)

Min(a, b) == IF a <= b THEN a ELSE b

\* maxMessages ? Math.min(maxMessages, messages.length) : messages.length
endIndex ==
    IF maxMessages # <<>> /\ maxMessages[1] # 0
    THEN Min(maxMessages[1], Len(messages))
    ELSE Len(messages)

context ==
    [ userId     |-> userId,
      swapRoles  |-> swapRoles,
      mediaFiles |-> mediaFiles,
      skipIds    |-> skipIds ]

\* messages[i] and messages[i + 1] of the source (0-based there)
message     == messages[i + 1]
nextMessage == IF i + 2 <= Len(messages) THEN <<messages[i + 2]>> ELSE <<>>

\* An iteration that puts the result in front (unshift in place of push)
LoopIterationUnshift ==
    /\ pc = "loop"
    /\ i < endIndex
    /\ IF skipIdsHas(context, message.id)
       THEN UNCHANGED <<skipIds, processedMessages, srcIdx>>
       ELSE \E processed \in {processMessage(message, nextMessage, context)} :
                /\ skipIds' = processed.skipIds
                /\ processedMessages' = processed.msg \o processedMessages
                /\ srcIdx' = IF processed.msg = <<>> THEN srcIdx
                             ELSE <<i>> \o srcIdx
    /\ i' = i + 1
    /\ UNCHANGED <<messages, userId, swapRoles, mediaFiles, maxMessages, pc,
                   returned>>
    /\ UNCHANGED <<callVars, storeVars, viewVars, hookVars>>

\* One iteration of the for loop
LoopIteration ==
    /\ pc = "loop"
    /\ i < endIndex
    /\ IF skipIdsHas(context, message.id)
       THEN UNCHANGED <<skipIds, processedMessages, srcIdx>>
       ELSE \E processed \in {processMessage(message, nextMessage, context)} :
                /\ skipIds' = processed.skipIds
                /\ processedMessages' = processedMessages \o processed.msg
                /\ srcIdx' = IF processed.msg = <<>> THEN srcIdx
                             ELSE Append(srcIdx, i)
    /\ i' = i + 1
    /\ UNCHANGED <<messages, userId, swapRoles, mediaFiles, maxMessages, pc,
                   returned>>
    /\ UNCHANGED <<callVars, storeVars, viewVars, hookVars>>

\* Loop exit and return processedMessages
Return ==
    /\ pc = "loop"
    /\ i >= endIndex
    /\ pc' = "done"
    /\ UNCHANGED <<messages, userId, swapRoles, mediaFiles, maxMessages, i,
                   skipIds, processedMessages, srcIdx, returned>>
    /\ UNCHANGED <<callVars, storeVars, viewVars, hookVars>>

Next == LoopIteration \/ Return

----------------------------------------------------------------------------
(* Inputs *)

Alice == <<"8:", "alice">>
Bob   == <<"8:", "bob">>

\* message.content samples
C_Plain  == <<"hello">>
C_Rich   == <<BoldRaw, " and ", ScriptTag>>
C_TrGood == <<TrOpen, "hola ", ItalicRaw, TrClose>>
C_TrNone == <<TrEmptyList>>
C_TrBad  == <<"{\"translations\":", ImgOnError>>
C_Uri    == << UriObjTag, TypeAttr, "Picture.1", Quote, UriAttr, "0-weu-d1-aa", Quote,
               TagClose, "To view this shared photo, go to: ", AnchorRaw,
               OrigNameOpen, "cat.jpg", SelfClose,
               FileSizeOpen, "2048", SelfClose, UriObjEnd >>
C_UriNoId == << UriObjTag, TagClose, OrigNameOpen, ImgOnError, SelfClose, UriObjEnd >>
C_Video  == << UriObjTag, TypeAttr, "Video.1/Message.1", Quote, TagClose,
               "https://login.skype.com/login/sso", PicParam, "0-weu-d2-bb",
               OrigNameOpen, "clip.mp4", SelfClose,
               FileSizeOpen, "1572864", SelfClose, UriObjEnd >>
C_File   == << UriObjTag, TagClose, OrigNameOpen, "report.pdf", SelfClose,
               FileSizeOpen, "512", SelfClose, UriObjEnd >>
C_FileHostile == << UriObjTag, TagClose, OrigNameOpen, ImgOnError, SelfClose, UriObjEnd >>
C_Targets == << "<addmember>", TargetOpen, "8:", "bob", TargetClose,
                TargetOpen, "8:", "live:", "carol", TargetClose, "</addmember>" >>
C_TargetsDup == << "<addmember>", TargetOpen, "8:", "bob", TargetClose,
                   TargetOpen, "8:", "carol", TargetClose,
                   TargetOpen, "8:", "bob", TargetClose, "</addmember>" >>
C_ValueTrue  == << ValueOpen, "True", ValueClose >>
C_ValueFalse == << ValueOpen, "false", ValueClose >>
C_Call   == << PartlistTag, TypeAttr, "Ended", Quote, TagClose,
               PartOpen, "8:", "alice", PartTagEnd,
               NameOpen, "Alice", NameClose, DurationOpen, "42", DurationClose, PartClose,
               PartOpen, "8:", "bob", PartTagEnd,
               NameOpen, "Bob", NameClose, DurationOpen, "125", DurationClose, PartClose,
               PartlistEnd >>
C_CallHostile == << PartlistTag, TypeAttr, ImgOnError, Quote, TagClose, PartlistEnd >>
C_Notice == << NoticeOpen, TitleKey, "Alert", TextKey, "Storage low", NoticeClose >>
C_NoticeHostile == << NoticeOpen, TextKey, ImgOnError, NoticeClose >>
C_PopCard == << PopCardOpen, TitleKey, "Offer", TextKey, "Free credit", PopCardClose >>
C_JsonBad == << "[{\"attachments\":" >>
C_NoticeTitle  == << NoticeOpen, TitleKey, "Alert", NoticeClose >>
C_NoticeEmpty  == << NoticeOpen, NoticeClose >>
C_PopCardEmpty == << PopCardOpen, PopCardClose >>

Tag_TopicUpdate == <<"ThreadActivity", "/TopicUpdate">>
Tag_Call        == <<"Event", "/Call">>
Tag_InviteFree  == <<"InviteFreeRelationshipChanged", "/Initialized">>
Tag_Poll        == <<"Poll">>

\* Every dispatch path of processMessage with well-formed, malformed and
\* hostile content: <<messagetype, content>>
AllShapes ==
    { <<Tag_MediaAlbum, C_Plain>>,
      <<Tag_Translation, C_TrGood>>, <<Tag_Translation, C_TrNone>>,
      <<Tag_Translation, C_TrBad>>,
      <<Tag_UriObject, C_Uri>>, <<Tag_UriObject, C_UriNoId>>,
      <<Tag_MediaVideo, C_Video>>,
      <<Tag_GenericFile, C_File>>, <<Tag_GenericFile, C_FileHostile>>,
      <<Tag_RichText, C_Plain>>, <<Tag_RichText, C_Rich>>, <<Tag_RichText, <<>> >>,
      <<Tag_AddMember, C_Targets>>, <<Tag_AddMember, C_Plain>>,
      <<Tag_AddMember, C_TargetsDup>>,
      <<Tag_HistoryDisclosedUpdate, C_ValueTrue>>,
      <<Tag_JoiningEnabledUpdate, C_ValueFalse>>,
      <<Tag_TopicUpdate, C_ValueTrue>>,
      <<Tag_Call, C_Call>>, <<Tag_Call, C_CallHostile>>,
      <<Tag_Notice, C_Notice>>, <<Tag_Notice, C_NoticeHostile>>,
      <<Tag_Notice, C_JsonBad>>, <<Tag_Notice, C_NoticeEmpty>>,
      <<Tag_Notice, C_NoticeTitle>>,
      <<Tag_PopCard, C_PopCard>>, <<Tag_PopCard, C_JsonBad>>,
      <<Tag_PopCard, C_PopCardEmpty>>,
      <<Tag_InviteFree, C_Rich>>,
      <<Tag_Text, C_Plain>>, <<Tag_Text, C_Rich>>,
      <<Tag_Poll, C_Rich>> }

\* The shapes that take part in translation pairing, skipping and dropping
PairShapes ==
    { <<Tag_Translation, C_TrGood>>, <<Tag_Translation, C_TrBad>>,
      <<Tag_RichText, C_Rich>>, <<Tag_Notice, C_JsonBad>>,
      <<Tag_MediaAlbum, C_Plain>> }

Senders == {Alice, Bob}

\* Own records carry no display name in an export, others their Skype id
DisplayNameOf(from) == IF from = Alice THEN <<>> ELSE <<from>>

Record(id, time, shape, from) ==
    [ id                  |-> id,
      displayName         |-> DisplayNameOf(from),
      originalarrivaltime |-> time,
      messagetype         |-> shape[1],
      content             |-> shape[2],
      from                |-> from ]

\* Longest input of the pairing family
MaxLen == 3

\* Record ids matter only through equality (skipIds.has / skipIds.add), so
\* the ids of a list are taken up to renaming: the first record has id 1
\* and each later record repeats an earlier id or takes the next fresh one.
IdLists(n) ==
    { ids \in [1..n -> 1..n] :
        \A k \in 1..n :
            \/ ids[k] = 1
            \/ \E j \in 1..(k - 1) : ids[j] >= ids[k] - 1 }

\* messages is a list of n records with the given shapes, arrival times in
\* list order
RecordLists(n, shapes) ==
    \E ids \in IdLists(n), sh \in [1..n -> shapes], fr \in [1..n -> Senders] :
        messages = [k \in 1..n |-> Record(ids[k], k, sh[k], fr[k])]

MediaStores == { <<>>, <<{}>>, <<{"0-weu-d1-aa"}>> }

\* No exported function is being called
NoCall == args = <<>> /\ result = <<>>

\* No export is loaded
NoStore ==
    /\ exportData = <<>>
    /\ selectedConversationId = <<>>
    /\ swappedRoles = <<>>
    /\ processedMessagesCache = <<>>

\* The hooks of the message view as they are when it mounts
NoHooks ==
    /\ isLoadingMore = FALSE
    /\ isLoadingAll = FALSE
    /\ previousScrollHeightRef = 0
    /\ transitions = <<>>
    /\ restoreChains = <<>>
    /\ mediaGalleryOpened = FALSE
    /\ mediaItems = <<>>
    /\ lastProcessedCountRef = 0
    /\ processingRef = FALSE
    /\ extractions = <<>>

\* No conversation is shown
NoView ==
    /\ loadedMessageCount = 0
    /\ viewMessages = <<>>
    /\ searchQuery = <<>>
    /\ currentMatchIndex = 0
    /\ NoHooks

\* The state of a pass as processMessages sets it up
Start ==
    /\ i = 0
    /\ skipIds = {}
    /\ processedMessages = <<>>
    /\ srcIdx = <<>>
    /\ pc = "loop"
    /\ returned = <<>>
    /\ NoCall
    /\ NoStore
    /\ NoView

\* No pass is running
NoPass ==
    /\ messages = <<>>
    /\ userId = <<>>
    /\ swapRoles = FALSE
    /\ mediaFiles = <<>>
    /\ maxMessages = <<>>
    /\ i = 0
    /\ skipIds = {}
    /\ processedMessages = <<>>
    /\ srcIdx = <<>>
    /\ pc = "idle"
    /\ returned = <<>>

\* A record of any shape, alone or followed by a record of any shape
InitFocus ==
    /\ \E n \in 1..2 : RecordLists(n, AllShapes)
    /\ userId \in Senders
    /\ swapRoles \in BOOLEAN
    /\ mediaFiles \in MediaStores
    /\ maxMessages = <<>>
    /\ Start

\* Lists of pairing records up to MaxLen
InitPairs ==
    /\ \E n \in 0..MaxLen : RecordLists(n, PairShapes)
    /\ userId = Alice
    /\ swapRoles \in BOOLEAN
    /\ mediaFiles = <<>>
    /\ maxMessages \in { <<>>, <<2>> }
    /\ Start

Init == InitFocus \/ InitPairs

Spec == Init /\ [][Next]_vars

----------------------------------------------------------------------------
(* Repeated passes: processMessages called again on the same records, as   *)
(* useMessageProcessing does when the perspective or the window changes.   *)

\* Most calls of processMessages on one list of records
MaxPasses == 3

\* A call that goes on with the skipIds of the call before it
ProcessMessagesAgainSharing(swap) ==
    /\ pc = "done"
    /\ Len(returned) < MaxPasses - 1
    /\ returned' = Append(returned, [swapRoles |-> swapRoles,
                                     output    |-> processedMessages])
    /\ swapRoles' = swap
    /\ i' = 0
    /\ processedMessages' = <<>>
    /\ srcIdx' = <<>>
    /\ pc' = "loop"
    /\ UNCHANGED <<messages, userId, mediaFiles, maxMessages, skipIds>>
    /\ UNCHANGED <<callVars, storeVars, viewVars, hookVars>>

\* The next call of processMessages(messages, userId, swap, mediaFiles,
\* maxMessages): a new context with skipIds: new Set(), a new output array,
\* i = 0.  The call before it has returned; what it returned is recorded.
ProcessMessagesAgain(swap) ==
    /\ pc = "done"
    /\ Len(returned) < MaxPasses - 1
    /\ returned' = Append(returned, [swapRoles |-> swapRoles,
                                     output    |-> processedMessages])
    /\ swapRoles' = swap
    /\ i' = 0
    /\ skipIds' = {}
    /\ processedMessages' = <<>>
    /\ srcIdx' = <<>>
    /\ pc' = "loop"
    /\ UNCHANGED <<messages, userId, mediaFiles, maxMessages>>
    /\ UNCHANGED <<callVars, storeVars, viewVars, hookVars>>

NextPasses ==
    \/ LoopIteration
    \/ Return
    \/ \E swap \in BOOLEAN : ProcessMessagesAgain(swap)

SpecPasses == InitPairs /\ [][NextPasses]_vars

----------------------------------------------------------------------------
(* Limited passes: processMessages called with a maxMessages argument, as  *)
(* useMessageProcessing does with messagesToLoad.                          *)

\* Largest maxMessages argument
MaxLimit == 2

\* Lists of pairing records up to MaxLen, with a limit from 0 to MaxLimit
InitLimit ==
    /\ \E n \in 0..MaxLen : RecordLists(n, PairShapes)
    /\ userId = Alice
    /\ swapRoles \in BOOLEAN
    /\ mediaFiles = <<>>
    /\ \E k \in 0..MaxLimit : maxMessages = <<k>>
    /\ Start

SpecLimit == InitLimit /\ [][Next]_vars

----------------------------------------------------------------------------
(* Call events: one Event/Call record built from participant segments *)

\* Most participant segments of a generated call event
MaxParts == 3

\* <part identity="..."> <name>..</name> <duration>..</duration> </part>,
\* the name and the duration optional (nullable strings)
PartSegment(identity, name, duration) ==
    <<PartOpen>> \o identity \o <<PartTagEnd>> \o
    (IF name = <<>> THEN <<>> ELSE <<NameOpen, name[1], NameClose>>) \o
    (IF duration = <<>> THEN <<>>
     ELSE <<DurationOpen, duration[1], DurationClose>>) \o
    <<PartClose>>

\* <partlist type="..."> segments </partlist>, the type attribute optional
CallContent(type, segments) ==
    (IF type = <<>> THEN <<PartlistTag, TagClose>>
     ELSE <<PartlistTag, TypeAttr, type[1], Quote, TagClose>>) \o
    Flatten(segments) \o <<PartlistEnd>>

DurationSamples ==
    { <<>>, <<"0">>, <<"5">>, <<"17">>, <<"42">>, <<"59.9">>, <<"60">>,
      <<"125">>, <<"soon">> }

IdentitySamples ==
    { <<"8:", "alice">>, <<"8:", "Alice">>, <<"alice">>, <<"8:", "bob">>,
      <<"8:", "carol">> }

\* The display name a segment carries for an identity
NameSample(identity) ==
    CASE toLowerCase(identity)[Len(identity)] = "alice" -> <<"Alice">>
      [] toLowerCase(identity)[Len(identity)] = "bob"   -> <<"Bob">>
      [] OTHER                                          -> <<"Carol">>

CallRecord(type, segments) ==
    Record(1, 1, <<Tag_Call, CallContent(type, segments)>>, Bob)

\* An ended or started call whose segments carry any durations
InitDurations ==
    /\ \E n \in 1..MaxParts, type \in {<<"Ended">>, <<"Started">>} :
       \E ids \in [1..n -> {Alice, Bob}], ds \in [1..n -> DurationSamples] :
          messages = << CallRecord(type,
                            [k \in 1..n |-> PartSegment(ids[k], <<>>, ds[k])]) >>
    /\ userId = Alice
    /\ swapRoles = FALSE
    /\ mediaFiles = <<>>
    /\ maxMessages = <<>>
    /\ Start

\* A call among any participants, seen by either user from either side
InitParticipants ==
    /\ \E n \in 0..MaxParts, type \in {<<>>, <<"Started">>} :
       \E ids \in [1..n -> IdentitySamples], named \in [1..n -> BOOLEAN] :
          messages = << CallRecord(type,
                            [k \in 1..n |->
                                PartSegment(ids[k],
                                    IF named[k] THEN NameSample(ids[k]) ELSE <<>>,
                                    <<>>)]) >>
    /\ userId \in Senders
    /\ swapRoles \in BOOLEAN
    /\ mediaFiles = <<>>
    /\ maxMessages = <<>>
    /\ Start

InitCall == InitDurations \/ InitParticipants

SpecCall == InitCall /\ [][Next]_vars

----------------------------------------------------------------------------
(* shouldGroupWithPrevious: visual grouping of adjacent messages *)

\* The threshold of constants/messages.ts in milliseconds.  The
\* specification fixes it only between one second and ten minutes.
GROUP_TIME_THRESHOLD == 300000

\* new Date(timestamp).getTime() in milliseconds counted from
\* 2024-03-01T00:00:00Z; null stands for NaN (Invalid Date)
DateGetTime(timestamp) ==
    CASE timestamp = "2024-03-01T10:00:00Z" -> <<36000000>>
      [] timestamp = "2024-03-01T10:00:01Z" -> <<36001000>>
      [] timestamp = "2024-03-01T10:04:59Z" -> <<36299000>>
      [] timestamp = "2024-03-01T10:05:00Z" -> <<36300000>>
      [] timestamp = "2024-03-01T10:10:00Z" -> <<36600000>>
      [] timestamp = "2024-03-02T10:00:00Z" -> <<122400000>>
      [] OTHER                              -> <<>>

\* Math.abs(a - b) of two getTime() values, NaN when either is NaN
AbsDiff(a, b) ==
    IF a = <<>> \/ b = <<>> THEN <<>>
    ELSE IF a[1] >= b[1] THEN <<a[1] - b[1]>> ELSE <<b[1] - a[1]>>

\* timeDiff < GROUP_TIME_THRESHOLD: false for NaN
WithinThreshold(timeDiff) ==
    timeDiff # <<>> /\ timeDiff[1] < GROUP_TIME_THRESHOLD

\* A grouping that lets system messages group like any other kind
shouldGroupWithSystem(current, previous) ==
    IF \/ previous = <<>>
       \/ current.from # previous[1].from
       \/ current.type # previous[1].type
    THEN FALSE
    ELSE WithinThreshold(AbsDiff(DateGetTime(current.timestamp),
                                 DateGetTime(previous[1].timestamp)))

shouldGroupWithPrevious(current, previous) ==
    IF \/ previous = <<>>
       \/ current.from # previous[1].from
       \/ current.type # previous[1].type
    THEN FALSE
    ELSE IF current.type = "system" \/ previous[1].type = "system"
    THEN FALSE
    ELSE WithinThreshold(AbsDiff(DateGetTime(current.timestamp),
                                 DateGetTime(previous[1].timestamp)))

\* The call shouldGroupWithPrevious(args.current, args.previous)
ShouldGroupWithPrevious ==
    /\ result = <<>>
    /\ result' = <<shouldGroupWithPrevious(args.current, args.previous)>>
    /\ UNCHANGED <<args, passVars, hookVars, storeVars, viewVars>>

MessageKinds == {"text", "system", "call", "notice", "media"}

TimestampSamples ==
    { "2024-03-01T10:00:00Z", "2024-03-01T10:00:01Z", "2024-03-01T10:04:59Z",
      "2024-03-01T10:05:00Z", "2024-03-01T10:10:00Z", "yesterday" }

\* The fields of a ProcessedMessage that grouping reads
GroupingMessages == [from : Senders, type : MessageKinds, timestamp : TimestampSamples]

InitGroup ==
    /\ \E current \in GroupingMessages :
          \/ args = [current |-> current, previous |-> <<>>]
          \/ \E previous \in GroupingMessages :
                args = [current |-> current, previous |-> <<previous>>]
    /\ result = <<>>
    /\ NoPass
    /\ NoStore
    /\ NoView

SpecGroup == InitGroup /\ [][ShouldGroupWithPrevious]_vars

----------------------------------------------------------------------------
(* Message search (src/src/utils/messageSearch.ts).  Here a string is a    *)
(* sequence of characters, so that includes() is a substring test.         *)

\* String.prototype.includes
includes(text, sub) ==
    \E k \in 0..(Len(text) - Len(sub)) : SubSeq(text, k + 1, k + Len(sub)) = sub

\* html.replace(/<[^>]*>/g, ""), which for markup whose tags are all closed
\* is also the textContent of the parsed markup
RECURSIVE stripHtmlForSearch(_)
StripFrom(html, open, close) ==
    IF open = 0 \/ close = 0 THEN html
    ELSE SubSeq(html, 1, open - 1) \o
         stripHtmlForSearch(SubSeq(html, close + 1, Len(html)))

StripAt(html, open) ==
    StripFrom(html, open, Least({q \in (open + 1)..Len(html) : html[q] = ">"}))

stripHtmlForSearch(html) ==
    StripAt(html, Least({q \in 1..Len(html) : html[q] = "<"}))

\* A match rule that compares without folding the case of the query
messageMatchesExactCase(msg, query) ==
    \/ trim(query) = <<>>
    \/ includes(toLowerCase(stripHtmlForSearch(msg.content)), trim(query))
    \/ includes(toLowerCase(Unwrap(msg.displayName)), trim(query))

messageMatchesSearch(msg, query) ==
    \/ trim(query) = <<>>
    \/ includes(toLowerCase(stripHtmlForSearch(msg.content)),
                trim(toLowerCase(query)))
    \/ includes(toLowerCase(Unwrap(msg.displayName)), trim(toLowerCase(query)))

filterMessages(msgs, query) ==
    IF trim(query) = <<>> THEN msgs
    ELSE SelectSeq(msgs, LAMBDA m : messageMatchesSearch(m, query))

\* The loop of findMatchingMessageIndices from index k (0-based) on
RECURSIVE MatchingFrom(_, _, _)
MatchingFrom(msgs, query, k) ==
    IF k >= Len(msgs) THEN <<>>
    ELSE (IF messageMatchesSearch(msgs[k + 1], query) THEN <<k>> ELSE <<>>) \o
         MatchingFrom(msgs, query, k + 1)

findMatchingMessageIndices(msgs, query) ==
    IF trim(query) = <<>> THEN <<>> ELSE MatchingFrom(msgs, query, 0)

\* The call filterMessages(args.messages, args.query)
FilterMessages ==
    /\ result.filterMessages = <<>>
    /\ result' = [result EXCEPT !.filterMessages =
                      <<filterMessages(args.messages, args.query)>>]
    /\ UNCHANGED <<args, passVars, hookVars, storeVars, viewVars>>

\* The call findMatchingMessageIndices(args.messages, args.query)
FindMatchingMessageIndices ==
    /\ result.findMatchingMessageIndices = <<>>
    /\ result' = [result EXCEPT !.findMatchingMessageIndices =
                      <<findMatchingMessageIndices(args.messages, args.query)>>]
    /\ UNCHANGED <<args, passVars, hookVars, storeVars, viewVars>>

NextSearch == FilterMessages \/ FindMatchingMessageIndices

\* Longest message list searched
MaxSearchLen == 2

ContentSamples ==
    { <<>>, <<"a", "b">>, <<"<", "b", ">", "A", "b", "<", "/", "b", ">">>,
      <<"a", "<", "b", ">", "B", "<", "/", "b", ">", " ", "a">>,
      <<"<", "a", "b", ">", "b", "<", "/", "a", "b", ">">> }

DisplayNameSamples == { <<>>, << <<"B", "o", "b">> >>, << <<"a", "b">> >> }

QuerySamples ==
    { <<>>, <<" ">>, <<"a", "b">>, <<"A", "B">>, <<" ", "b", " ">>, <<"b", " ", "a">>,
      <<"o">>, <<"<", "b", ">">> }

SearchMessages == [content : ContentSamples, displayName : DisplayNameSamples]

InitSearch ==
    /\ \E n \in 0..MaxSearchLen :
          \E msgs \in [1..n -> SearchMessages], query \in QuerySamples :
             args = [messages |-> msgs, query |-> query]
    /\ result = [filterMessages |-> <<>>, findMatchingMessageIndices |-> <<>>]
    /\ NoPass
    /\ NoStore
    /\ NoView

SpecSearch == InitSearch /\ [][NextSearch]_vars

----------------------------------------------------------------------------
(* highlightSearchMatch: the inserted wrapper is one token on each side *)

MarkOpen  == "<mark style=\"background-color: rgba(255, 255, 0, 0.4); padding: 2px 0;\">"
MarkClose == "</mark>"

\* text.replace(regex, '<mark ...>$1</mark>') for the escaped query with
\* flags g and i: every match from left to right, matches not overlapping
RECURSIVE ReplaceMatches(_, _)
ReplaceAt(text, escapedQuery, at) ==
    IF at = 0 THEN text
    ELSE SubSeq(text, 1, at - 1) \o <<MarkOpen>> \o
         SubSeq(text, at, at + Len(escapedQuery) - 1) \o <<MarkClose>> \o
         ReplaceMatches(SubSeq(text, at + Len(escapedQuery), Len(text)), escapedQuery)

ReplaceMatches(text, escapedQuery) ==
    ReplaceAt(text, escapedQuery,
        Least({k \in 1..(Len(text) - Len(escapedQuery) + 1) :
                 toLowerCase(SubSeq(text, k, k + Len(escapedQuery) - 1)) =
                     toLowerCase(escapedQuery)}))

\* /<[^>]+>/.test(html)
HasTag(html) ==
    \E open \in 1..Len(html) :
        /\ html[open] = "<"
        /\ \E close \in (open + 2)..Len(html) :
              /\ html[close] = ">"
              /\ \A k \in (open + 1)..(close - 1) : html[k] # ">"

\* The text between lastIndex and pos (the i of the source) with its matches wrapped, when not empty
TextPart(html, escapedQuery, lastIndex, pos) ==
    IF lastIndex < pos THEN ReplaceMatches(SubSeq(html, lastIndex + 1, pos), escapedQuery)
    ELSE <<>>

\* The for loop from index pos on and the text after the last tag; parts is
\* kept joined
RECURSIVE Scan(_, _, _, _, _, _)
Scan(html, escapedQuery, pos, lastIndex, inTag, parts) ==
    IF pos >= Len(html)
    THEN parts \o TextPart(html, escapedQuery, lastIndex, Len(html))
    ELSE IF html[pos + 1] = "<"
    THEN Scan(html, escapedQuery, pos + 1, pos, TRUE,
              parts \o TextPart(html, escapedQuery, lastIndex, pos))
    ELSE IF html[pos + 1] = ">" /\ inTag
    THEN Scan(html, escapedQuery, pos + 1, pos + 1, FALSE,
              parts \o SubSeq(html, lastIndex + 1, pos + 1))
    ELSE Scan(html, escapedQuery, pos + 1, lastIndex, inTag, parts)

highlightSearchMatch(html, query) ==
    IF trim(query) = <<>> \/ html = <<>> THEN html
    ELSE IF ~HasTag(html) THEN ReplaceMatches(html, trim(query))
    ELSE Scan(html, trim(query), 0, 0, FALSE, <<>>)

\* The call highlightSearchMatch(args.html, args.query)
HighlightSearchMatch ==
    /\ result = <<>>
    /\ result' = <<highlightSearchMatch(args.html, args.query)>>
    /\ UNCHANGED <<args, passVars, hookVars, storeVars, viewVars>>

\* Longest markup highlighted
MaxHtmlLen == 5

HtmlChars == {"<", ">", "a", "B"}

HighlightQueries == { <<>>, <<"a">>, <<"b">>, <<"A", "b">>, <<" ", "a", " ">>, <<"<">> }

InitHighlight ==
    /\ \E n \in 0..MaxHtmlLen :
          \E html \in [1..n -> HtmlChars], query \in HighlightQueries :
             args = [html |-> html, query |-> query]
    /\ result = <<>>
    /\ NoPass
    /\ NoStore
    /\ NoView

SpecHighlight == InitHighlight /\ [][HighlightSearchMatch]_vars

----------------------------------------------------------------------------
(* The message store (src/src/store/messageStore.ts).  An object keyed by  *)
(* conversation id is a function on ConversationIds; a conversation        *)
(* without cache entry has both sides null, which is all that              *)
(* getProcessedMessages can tell.                                          *)

ConversationIds == {"c1", "c2"}

NoEntry == [normal |-> <<>>, swapped |-> <<>>]

\* The initial state of the store: swappedRoles {}, processedMessagesCache {}
NoRolesSwapped == [c \in ConversationIds |-> FALSE]
EmptyCache == [c \in ConversationIds |-> NoEntry]

\* cache?.[isSwapped ? "swapped" : "normal"] ?? null
getProcessedMessages(cache, conversationId, isSwapped) ==
    IF isSwapped THEN cache[conversationId].swapped
    ELSE cache[conversationId].normal

\* A cache that keeps one list per conversation, whatever the perspective
cacheProcessedMessagesOneSlot(cache, conversationId, msgs, isSwapped) ==
    [cache EXCEPT ![conversationId] = [normal |-> <<msgs>>, swapped |-> <<msgs>>]]

\* The processedMessagesCache that cacheProcessedMessages sets
cacheProcessedMessages(cache, conversationId, msgs, isSwapped) ==
    [cache EXCEPT ![conversationId] =
        IF isSwapped THEN [@ EXCEPT !.swapped = <<msgs>>]
        ELSE [@ EXCEPT !.normal = <<msgs>>]]

\* The processedMessagesCache that toggleRoleSwap sets: delete newCache[id]
cacheWithout(cache, conversationId) == [cache EXCEPT ![conversationId] = NoEntry]

\* The swappedRoles that toggleRoleSwap sets
rolesToggled(roles, conversationId) == [roles EXCEPT ![conversationId] = ~@]

\* originalarrivaltime of the last message as getTime() gives it
LastTime(conversation) ==
    conversation.MessageList[Len(conversation.MessageList)].originalarrivaltime

\* Array.prototype.sort with the comparator bTime - aTime: a stable sort,
\* latest conversation first
RECURSIVE SortByLastMessage(_)
RECURSIVE InsertByLastMessage(_, _)
InsertByLastMessage(conversation, sorted) ==
    IF sorted = <<>> THEN <<conversation>>
    ELSE IF LastTime(sorted[1]) >= LastTime(conversation)
    THEN <<sorted[1]>> \o InsertByLastMessage(conversation, Tail(sorted))
    ELSE <<conversation>> \o sorted

SortByLastMessage(conversations) ==
    IF conversations = <<>> THEN <<>>
    ELSE InsertByLastMessage(conversations[Len(conversations)],
             SortByLastMessage(SubSeq(conversations, 1, Len(conversations) - 1)))

\* data.conversations.filter(...) and sort(...)
filteredConversations(data) ==
    SortByLastMessage(SelectSeq(data.conversations,
                                LAMBDA conv : Len(conv.MessageList) > 0))

\* filteredConversations[0]?.id || null
FirstId(conversations) ==
    IF conversations = <<>> THEN <<>> ELSE <<conversations[1].id>>

\* setExportData(data)
SetExportData(data) ==
    /\ exportData' = <<[data EXCEPT !.conversations = filteredConversations(data)]>>
    /\ selectedConversationId' = FirstId(filteredConversations(data))
    /\ processedMessagesCache' = EmptyCache
    /\ args' = [call |-> "setExportData"]
    /\ UNCHANGED <<swappedRoles, result, passVars, hookVars, viewVars>>

\* selectConversation(id)
SelectConversation(id) ==
    /\ selectedConversationId' = <<id>>
    /\ args' = [call |-> "selectConversation", conversationId |-> id]
    /\ UNCHANGED <<exportData, swappedRoles, processedMessagesCache, result,
                   passVars, hookVars, viewVars>>

\* toggleRoleSwap(conversationId)
ToggleRoleSwap(conversationId) ==
    /\ swappedRoles' = rolesToggled(swappedRoles, conversationId)
    /\ processedMessagesCache' = cacheWithout(processedMessagesCache, conversationId)
    /\ args' = [call |-> "toggleRoleSwap", conversationId |-> conversationId]
    /\ UNCHANGED <<exportData, selectedConversationId, result, passVars, hookVars, viewVars>>

\* cacheProcessedMessages(conversationId, messages, isSwapped)
CacheProcessedMessages(conversationId, msgs, isSwapped) ==
    /\ processedMessagesCache' =
           cacheProcessedMessages(processedMessagesCache, conversationId, msgs,
                                  isSwapped)
    /\ args' = [call |-> "cacheProcessedMessages", conversationId |-> conversationId,
                messages |-> msgs, isSwapped |-> isSwapped]
    /\ UNCHANGED <<exportData, selectedConversationId, swappedRoles, result,
                   passVars, hookVars, viewVars>>

\* getProcessedMessages(conversationId, isSwapped): the state is only read
GetProcessedMessages(conversationId, isSwapped) ==
    /\ result' = getProcessedMessages(processedMessagesCache, conversationId,
                                      isSwapped)
    /\ args' = [call |-> "getProcessedMessages", conversationId |-> conversationId,
                isSwapped |-> isSwapped]
    /\ UNCHANGED <<storeVars, passVars, hookVars, viewVars>>

\* Lists of processed messages as a caller may cache them
CachedSamples == { <<>>, <<[id |-> 2], [id |-> 1]>> }

\* Exports of two conversations, the last of them possibly empty
ExportSamples ==
    { [ userId |-> Alice,
        conversations |->
            << [id |-> "c1", MessageList |-> <<[originalarrivaltime |-> t1]>>],
               [id |-> "c2", MessageList |->
                                [k \in 1..n2 |-> [originalarrivaltime |-> 2]]] >> ] :
        t1 \in 1..3, n2 \in 0..1 }

NextStore ==
    \/ \E data \in ExportSamples : SetExportData(data)
    \/ \E id \in ConversationIds : SelectConversation(id)
    \/ \E id \in ConversationIds : ToggleRoleSwap(id)
    \/ \E id \in ConversationIds, msgs \in CachedSamples, isSwapped \in BOOLEAN :
          CacheProcessedMessages(id, msgs, isSwapped)
    \/ \E id \in ConversationIds, isSwapped \in BOOLEAN :
          GetProcessedMessages(id, isSwapped)

\* The store as create() builds it
InitStore ==
    /\ exportData = <<>>
    /\ selectedConversationId = <<>>
    /\ swappedRoles = NoRolesSwapped
    /\ processedMessagesCache = EmptyCache
    /\ NoCall
    /\ NoPass
    /\ NoView

SpecStore == InitStore /\ [][NextStore]_vars

----------------------------------------------------------------------------
(* The message view: MessageView.tsx with useMessageProcessing and         *)
(* useMessageScroll.  An action is an event handler together with the      *)
(* effects and the deferred processing it sets off.                        *)

\* The counts of constants/messages.ts, scaled down
INITIAL_MESSAGE_COUNT == 1
LOAD_MORE_INCREMENT == 1

\* processMessages as a function: the pass run to its return
RECURSIVE ProcessLoop(_, _, _, _, _)
ProcessStep(msgs, k, end, ctx, out, processed) ==
    ProcessLoop(msgs, k + 1, end, [ctx EXCEPT !.skipIds = processed.skipIds],
                out \o processed.msg)

ProcessLoop(msgs, k, end, ctx, out) ==
    IF k >= end THEN out
    ELSE IF skipIdsHas(ctx, msgs[k + 1].id) THEN ProcessLoop(msgs, k + 1, end, ctx, out)
    ELSE ProcessStep(msgs, k, end, ctx, out,
             processMessage(msgs[k + 1],
                            IF k + 2 <= Len(msgs) THEN <<msgs[k + 2]>> ELSE <<>>,
                            ctx))

processMessages(msgs, uid, swap, media, maxM) ==
    ProcessLoop(msgs, 0,
        IF maxM # <<>> /\ maxM[1] # 0 THEN Min(maxM[1], Len(msgs)) ELSE Len(msgs),
        [userId |-> uid, swapRoles |-> swap, mediaFiles |-> media, skipIds |-> {}],
        <<>>)

\* conversations.find((c) => c.id === id)
ConversationOf(id) ==
    exportData[1].conversations[
        Least({k \in 1..Len(exportData[1].conversations) :
                 exportData[1].conversations[k].id = id})]

\* cachedAll.slice(0, messagesToLoad)
Slice(list, messagesToLoad) == SubSeq(list, 1, Min(messagesToLoad, Len(list)))

\* The deferred branch of the processing effect: process, cache, show
ProcessAndCache(cache, conversation, swapped, processed) ==
    [ cache |-> cacheProcessedMessages(cache, conversation.id, processed, swapped),
      view  |-> processed ]

\* The processing effect of useMessageProcessing for messagesToLoad
\* records, cachedAll being what the cache holds
ProcessingEffect(cache, conversation, swapped, messagesToLoad, cachedAll) ==
    IF cachedAll # <<>> /\ Len(cachedAll[1]) >= messagesToLoad
    THEN [cache |-> cache, view |-> Slice(cachedAll[1], messagesToLoad)]
    ELSE ProcessAndCache(cache, conversation, swapped,
             processMessages(conversation.MessageList, exportData[1].userId,
                             swapped, exportData[1].mediaFiles,
                             <<messagesToLoad>>))

\* The cache and the shown messages once the view has settled on a
\* conversation, a perspective and a number of loaded records
Shown(cache, conversation, swapped, loaded) ==
    ProcessingEffect(cache, conversation, swapped,
        Min(loaded, Len(conversation.MessageList)),
        getProcessedMessages(cache, conversation.id, swapped))

\* matchingIndices of MessageView
matchingIndices ==
    IF trim(searchQuery) = <<>> THEN <<>>
    ELSE findMatchingMessageIndices(viewMessages, searchQuery)

\* The chunk size of constants/mediaGallery.ts, scaled down
MEDIA_GALLERY_CHUNK_SIZE == 1

\* The MediaItem pushed for a message, if it is a media message with a
\* mediaUrl
MediaItemOf(msg) ==
    IF msg.type = "media" /\ Truthy(msg.mediaUrl)
    THEN << [ id          |-> msg.id,
              mediaId     |-> msg.mediaUrl,
              timestamp   |-> msg.timestamp,
              displayName |-> msg.displayName,
              isOwner     |-> msg.isOwner ] >>
    ELSE <<>>

\* The for loop of processChunk over processed[index .. end - 1]
RECURSIVE ChunkItems(_, _, _)
ChunkItems(processed, index, end) ==
    IF index >= end THEN <<>>
    ELSE MediaItemOf(processed[index + 1]) \o ChunkItems(processed, index + 1, end)

\* The main effect of useMediaGallery for a selected conversation whose
\* cache entry is processed (null is <<>>): the new processingRef and the
\* extraction it schedules, if any
GalleryEffect(enabled, processed, lastCount, processing) ==
    IF /\ enabled
       /\ processed # <<>>
       /\ Len(processed[1]) > lastCount
       /\ ~processing
    THEN [ processing |-> TRUE,
           chains     |-> << [processed |-> processed[1], items |-> <<>>,
                              index |-> 0] >> ]
    ELSE [ processing |-> processing, chains |-> <<>> ]

\* processedMessagesLength of useMediaGallery
CachedLength(cache, id, swapped) ==
    IF getProcessedMessages(cache, id, swapped) = <<>> THEN 0
    ELSE Len(getProcessedMessages(cache, id, swapped)[1])

\* A conversation is picked in the list: selectConversation, then the
\* effects on [conversation?.id, swapped]: the reset effects of
\* useMessageProcessing, useMessageScroll and useMediaGallery, the main
\* effect of useMediaGallery, which still sees the gallery as it was, and
\* the reset effect of MessageView, which closes the gallery
PickConversation(id) ==
    /\ selectedConversationId # <<id>>
    /\ selectedConversationId' = <<id>>
    /\ searchQuery' = <<>>
    /\ currentMatchIndex' = 0
    /\ loadedMessageCount' = INITIAL_MESSAGE_COUNT
    /\ \E shown \in {Shown(processedMessagesCache, ConversationOf(id),
                           swappedRoles[id], INITIAL_MESSAGE_COUNT)} :
          /\ processedMessagesCache' = shown.cache
          /\ viewMessages' = shown.view
    /\ previousScrollHeightRef' = 0
    /\ isLoadingAll' = FALSE
    /\ lastProcessedCountRef' = 0
    /\ \E started \in {GalleryEffect(mediaGalleryOpened,
                             getProcessedMessages(processedMessagesCache, id,
                                                  swappedRoles[id]),
                             0, FALSE)} :
          /\ processingRef' = started.processing
          /\ extractions' = extractions \o started.chains
    /\ mediaGalleryOpened' = FALSE
    /\ args' = [call |-> "selectConversation", conversationId |-> id]
    /\ UNCHANGED <<exportData, swappedRoles, result, passVars, mediaItems,
                   isLoadingMore, transitions, restoreChains>>

\* handleRoleSwap: toggleRoleSwap, then the effects on
\* [conversation?.id, swapped].  The main effect of useMediaGallery finds no
\* cache entry, toggleRoleSwap having deleted it.
HandleRoleSwap ==
    /\ swappedRoles' = rolesToggled(swappedRoles, selectedConversationId[1])
    /\ searchQuery' = <<>>
    /\ currentMatchIndex' = 0
    /\ loadedMessageCount' = INITIAL_MESSAGE_COUNT
    /\ \E shown \in {Shown(cacheWithout(processedMessagesCache,
                                        selectedConversationId[1]),
                           ConversationOf(selectedConversationId[1]),
                           ~swappedRoles[selectedConversationId[1]],
                           INITIAL_MESSAGE_COUNT)} :
          /\ processedMessagesCache' = shown.cache
          /\ viewMessages' = shown.view
    /\ previousScrollHeightRef' = 0
    /\ isLoadingAll' = FALSE
    /\ lastProcessedCountRef' = 0
    /\ processingRef' = FALSE
    /\ mediaGalleryOpened' = FALSE
    /\ args' = [call |-> "handleRoleSwap"]
    /\ UNCHANGED <<exportData, selectedConversationId, result, passVars,
                   mediaItems, extractions, isLoadingMore, transitions,
                   restoreChains>>

\* handleSearch(query)
HandleSearch(query) ==
    /\ searchQuery' = query
    /\ currentMatchIndex' = 0
    /\ args' = [call |-> "handleSearch", query |-> query]
    /\ UNCHANGED <<storeVars, loadedMessageCount, viewMessages, result, passVars, hookVars>>

\* handleNavigateMatch(direction)
HandleNavigateMatch(direction) ==
    /\ Len(matchingIndices) # 0
    /\ currentMatchIndex' =
           IF direction = "next"
           THEN (currentMatchIndex + 1) % Len(matchingIndices)
           ELSE IF currentMatchIndex = 0 THEN Len(matchingIndices) - 1
                ELSE currentMatchIndex - 1
    /\ args' = [call |-> "handleNavigateMatch", direction |-> direction]
    /\ UNCHANGED <<storeVars, loadedMessageCount, viewMessages, searchQuery,
                   result, passVars, hookVars>>

\* The main effect of useMediaGallery after the cache of the selected
\* conversation has become cache: it runs if processedMessagesLength changed
GalleryAfter(cache) ==
    IF CachedLength(cache, selectedConversationId[1],
                    swappedRoles[selectedConversationId[1]]) =
       CachedLength(processedMessagesCache, selectedConversationId[1],
                    swappedRoles[selectedConversationId[1]])
    THEN UNCHANGED <<processingRef, extractions>>
    ELSE \E started \in {GalleryEffect(mediaGalleryOpened,
                              getProcessedMessages(cache, selectedConversationId[1],
                                  swappedRoles[selectedConversationId[1]]),
                              lastProcessedCountRef, processingRef)} :
            /\ processingRef' = started.processing
            /\ extractions' = extractions \o started.chains

\* handleScroll near the top: loadMoreMessages, then the processing effect
\* and the main effect of useMediaGallery
LoadMoreMessages ==
    /\ loadedMessageCount <
           Len(ConversationOf(selectedConversationId[1]).MessageList)
    /\ \E loaded \in
           {Min(loadedMessageCount + LOAD_MORE_INCREMENT,
                Len(ConversationOf(selectedConversationId[1]).MessageList))} :
          /\ loadedMessageCount' = loaded
          /\ \E shown \in {Shown(processedMessagesCache,
                                 ConversationOf(selectedConversationId[1]),
                                 swappedRoles[selectedConversationId[1]], loaded)} :
                /\ processedMessagesCache' = shown.cache
                /\ viewMessages' = shown.view
                /\ GalleryAfter(shown.cache)
    /\ args' = [call |-> "loadMoreMessages"]
    /\ UNCHANGED <<exportData, selectedConversationId, swappedRoles, searchQuery,
                   currentMatchIndex, result, passVars, scrollVars,
                   mediaGalleryOpened, mediaItems, lastProcessedCountRef>>

\* What is typed into the search field
ViewQueries == { <<>>, <<" ">>, <<"a">>, <<"B">> }

NextView ==
    \/ \E id \in ConversationIds : PickConversation(id)
    \/ HandleRoleSwap
    \/ \E query \in ViewQueries : HandleSearch(query)
    \/ \E direction \in {"next", "previous"} : HandleNavigateMatch(direction)
    \/ LoadMoreMessages

\* Most records of a conversation
MaxRaw == 4

\* A legacy Text record and a stacked-image marker, which is dropped
ViewShapes == { <<Tag_Text, <<"a">> >>, <<Tag_Text, <<"b">> >>, <<Tag_MediaAlbum, <<>> >> }

\* An export of two conversations in the order of the store, the first
\* with any records, all sent by the exported user
ViewExport(shapes) ==
    [ userId |-> Alice,
      mediaFiles |-> <<>>,
      conversations |->
          << [id |-> "c1",
              MessageList |-> [k \in 1..Len(shapes) |-> Record(k, k, shapes[k], Alice)]],
             [id |-> "c2",
              MessageList |-> <<Record(1, 1, <<Tag_Text, <<"a">> >>, Alice)>>] >> ]

\* The view once an export is loaded and its first conversation is shown
InitViewOf(data) ==
    /\ exportData = <<data>>
    /\ selectedConversationId = <<"c1">>
    /\ swappedRoles = NoRolesSwapped
    /\ loadedMessageCount = INITIAL_MESSAGE_COUNT
    /\ \E shown \in {ProcessAndCache(EmptyCache, data.conversations[1], FALSE,
                           processMessages(data.conversations[1].MessageList,
                               data.userId, FALSE, data.mediaFiles,
                               <<INITIAL_MESSAGE_COUNT>>))} :
          /\ processedMessagesCache = shown.cache
          /\ viewMessages = shown.view
    /\ searchQuery = <<>>
    /\ currentMatchIndex = 0

InitView ==
    /\ \E n \in 1..MaxRaw : \E shapes \in [1..n -> ViewShapes] :
          InitViewOf(ViewExport(shapes))
    /\ NoHooks
    /\ NoCall
    /\ NoPass

SpecView == InitView /\ [][NextView]_vars

----------------------------------------------------------------------------
(* Loading older messages: loadMoreMessages, handleScroll and the restore  *)
(* effect of useMessageScroll.ts, handleLoadAll of MessageView.tsx.  The   *)
(* state updates made inside startTransition are committed in a later      *)
(* step; until then the handlers see the state of the last commit.         *)

\* The frame counts of constants/messages.ts, scaled down
REQUIRED_STABLE_FRAMES == 2
MAX_SCROLL_FRAMES == 3

\* Most transitions that handlers leave waiting for their commit, and most
\* restoreScroll loops that handlers leave running
MaxPending == 2
MaxChains == 1

\* The update that loadMoreMessages queues for a conversation of total
\* records, and the one that restoreScroll queues
LoadUpdate(total) == [isLoadingMore |-> TRUE, total |-> <<total>>]
DoneUpdate == [isLoadingMore |-> FALSE, total |-> <<>>]

\* The restore effect, run after a commit that changed isLoadingMore: it
\* starts a restoreScroll loop unless the flag is off or the saved height is 0
RestoreEffect(loading, ref, chains) ==
    IF ~loading \/ ref = 0 THEN chains
    ELSE Append(chains, [frameCount |-> 0, stableFrames |-> 0])

\* handleScroll near the top with records left to load: loadMoreMessages
\* saves the scroll position and queues its updates in a transition
HandleScroll ==
    /\ ~isLoadingMore
    /\ loadedMessageCount <
           Len(ConversationOf(selectedConversationId[1]).MessageList)
    /\ Len(transitions) < MaxPending
    /\ previousScrollHeightRef' = 1
    /\ transitions' = Append(transitions,
           LoadUpdate(Len(ConversationOf(selectedConversationId[1]).MessageList)))
    /\ args' = [call |-> "loadMoreMessages"]
    /\ UNCHANGED <<result, passVars, storeVars, viewVars, galleryVars,
                   isLoadingMore, isLoadingAll, restoreChains>>

\* loadedMessageCount after the queued updaters of the first n transitions
RECURSIVE CountAfter(_, _, _)
CountAfter(queue, n, count) ==
    IF n = 0 THEN count
    ELSE CountAfter(Tail(queue), n - 1,
             IF Head(queue).isLoadingMore
             THEN Min(count + LOAD_MORE_INCREMENT, Head(queue).total[1])
             ELSE count)

\* What the processing effect does after a commit with loaded records shown
AfterCommit(loaded) ==
    IF loaded = loadedMessageCount
    THEN [cache |-> processedMessagesCache, view |-> viewMessages]
    ELSE Shown(processedMessagesCache, ConversationOf(selectedConversationId[1]),
               swappedRoles[selectedConversationId[1]], loaded)

\* React commits the first n waiting transitions: the states change, then
\* the processing effect and the restore effect run
CommitTransitions(n) ==
    /\ n \in 1..Len(transitions)
    /\ isLoadingMore' = transitions[n].isLoadingMore
    /\ transitions' = SubSeq(transitions, n + 1, Len(transitions))
    /\ \E loaded \in {CountAfter(transitions, n, loadedMessageCount)} :
          /\ loadedMessageCount' = loaded
          /\ \E shown \in {AfterCommit(loaded)} :
                /\ processedMessagesCache' = shown.cache
                /\ viewMessages' = shown.view
    /\ restoreChains' =
           IF transitions[n].isLoadingMore = isLoadingMore THEN restoreChains
           ELSE RestoreEffect(transitions[n].isLoadingMore,
                              previousScrollHeightRef, restoreChains)
    /\ args' = [call |-> "commit", transitions |-> n]
    /\ UNCHANGED <<exportData, selectedConversationId, swappedRoles, searchQuery,
                   currentMatchIndex, result, passVars, galleryVars, isLoadingAll,
                   previousScrollHeightRef>>

\* A sequence without its element at position c
Without(list, c) == SubSeq(list, 1, c - 1) \o SubSeq(list, c + 1, Len(list))

\* An animation frame of the restoreScroll loop c.  In its first frame the
\* height differs from lastHeight = 0; later it is the same or not.
RestoreScroll(c, sameHeight) ==
    /\ c \in 1..Len(restoreChains)
    /\ restoreChains[c].frameCount = 0 => ~sameHeight
    /\ \E stableFrames \in {IF sameHeight THEN restoreChains[c].stableFrames + 1
                              ELSE 0} :
          IF \/ stableFrames >= REQUIRED_STABLE_FRAMES
             \/ restoreChains[c].frameCount + 1 >= MAX_SCROLL_FRAMES
          THEN /\ previousScrollHeightRef' = 0
               /\ transitions' = Append(transitions, DoneUpdate)
               /\ restoreChains' = Without(restoreChains, c)
          ELSE /\ restoreChains' =
                      [restoreChains EXCEPT ![c] =
                          [frameCount   |-> @.frameCount + 1,
                           stableFrames |-> stableFrames]]
               /\ UNCHANGED <<previousScrollHeightRef, transitions>>
    /\ args' = [call |-> "restoreScroll"]
    /\ UNCHANGED <<result, passVars, storeVars, viewVars, galleryVars,
                   isLoadingMore, isLoadingAll>>

\* handleLoadAll with the commit of its updates and the effects after it:
\* the restore effect sees isLoadingMore set, the effect on isLoadingAll
\* finds every record loaded and clears both flags
HandleLoadAll ==
    /\ ~isLoadingAll
    /\ ~isLoadingMore
    /\ Len(transitions) < MaxPending
    /\ Len(restoreChains) < MaxChains
    /\ \E loaded \in {Len(ConversationOf(selectedConversationId[1]).MessageList)} :
          /\ loadedMessageCount' = loaded
          /\ \E shown \in {AfterCommit(loaded)} :
                /\ processedMessagesCache' = shown.cache
                /\ viewMessages' = shown.view
    /\ restoreChains' = RestoreEffect(TRUE, previousScrollHeightRef, restoreChains)
    /\ isLoadingMore' = FALSE
    /\ isLoadingAll' = FALSE
    /\ args' = [call |-> "handleLoadAll"]
    /\ UNCHANGED <<exportData, selectedConversationId, swappedRoles, searchQuery,
                   currentMatchIndex, result, passVars, galleryVars,
                   previousScrollHeightRef, transitions>>

\* The steps that React and the browser take by themselves
Commits == \E n \in 1..(MaxPending + MaxChains + 1) : CommitTransitions(n)
Frames ==
    \E c \in 1..(MaxChains + 1), sameHeight \in BOOLEAN : RestoreScroll(c, sameHeight)

NextScroll ==
    \/ HandleScroll
    \/ Commits
    \/ Frames
    \/ HandleLoadAll
    \/ \E id \in ConversationIds : PickConversation(id)
    \/ HandleRoleSwap

\* An export whose first conversation has up to MaxRaw text records
InitScroll ==
    /\ \E n \in 1..MaxRaw :
          InitViewOf(ViewExport([k \in 1..n |-> <<Tag_Text, <<"a">> >>]))
    /\ NoHooks
    /\ NoCall
    /\ NoPass

SpecScroll == InitScroll /\ [][NextScroll]_vars

\* Waiting transitions are committed and requested frames run
SpecScrollLive ==
    InitScroll /\ [][NextScroll]_vars /\ WF_vars(Commits) /\ WF_vars(Frames)

----------------------------------------------------------------------------
(* The media gallery: useMediaGallery.ts, opened and closed by MessageView *)

\* Most extractions that handleOpenMediaGallery leaves in flight
MaxExtractions == 2

\* handleOpenMediaGallery, then the main effect of useMediaGallery
HandleOpenMediaGallery ==
    /\ ~mediaGalleryOpened
    /\ Len(extractions) < MaxExtractions
    /\ mediaGalleryOpened' = TRUE
    /\ \E started \in {GalleryEffect(TRUE,
                             getProcessedMessages(processedMessagesCache,
                                 selectedConversationId[1],
                                 swappedRoles[selectedConversationId[1]]),
                             lastProcessedCountRef, processingRef)} :
          /\ processingRef' = started.processing
          /\ extractions' = extractions \o started.chains
    /\ args' = [call |-> "handleOpenMediaGallery"]
    /\ UNCHANGED <<result, passVars, storeVars, viewVars, scrollVars, mediaItems,
                   lastProcessedCountRef>>

\* handleCloseMediaGallery; the main effect returns at `!enabled`
HandleCloseMediaGallery ==
    /\ mediaGalleryOpened
    /\ mediaGalleryOpened' = FALSE
    /\ args' = [call |-> "handleCloseMediaGallery"]
    /\ UNCHANGED <<result, passVars, storeVars, viewVars, scrollVars, mediaItems,
                   lastProcessedCountRef, processingRef, extractions>>

\* processChunk(processed, items, index) of extraction c in an idle
\* callback, items being the array with the items pushed by this call
ProcessChunk(c, chain, end, items) ==
    /\ IF end < Len(chain.processed)
       THEN /\ extractions' = [extractions EXCEPT ![c] =
                                  [processed |-> chain.processed, items |-> items,
                                   index |-> end]]
            /\ UNCHANGED <<mediaItems, lastProcessedCountRef, processingRef>>
       ELSE /\ mediaItems' = items
            /\ lastProcessedCountRef' = Len(chain.processed)
            /\ processingRef' = FALSE
            /\ extractions' = Without(extractions, c)
    /\ args' = [call |-> "processChunk"]
    /\ UNCHANGED <<result, passVars, storeVars, viewVars, scrollVars,
                   mediaGalleryOpened>>

\* An idle callback runs the next chunk of extraction c
IdleCallback(c) ==
    /\ c \in 1..Len(extractions)
    /\ \E end \in {Min(extractions[c].index + MEDIA_GALLERY_CHUNK_SIZE,
                        Len(extractions[c].processed))} :
          ProcessChunk(c, extractions[c], end,
              extractions[c].items \o
              ChunkItems(extractions[c].processed, extractions[c].index, end))

NextGallery ==
    \/ HandleOpenMediaGallery
    \/ HandleCloseMediaGallery
    \/ \E c \in 1..(MaxExtractions + 1) : IdleCallback(c)
    \/ \E id \in ConversationIds : PickConversation(id)
    \/ HandleRoleSwap
    \/ LoadMoreMessages

\* A shared photo and a text record
GalleryShapes == { <<Tag_UriObject, C_Uri>>, <<Tag_Text, <<"a">> >> }

\* An export with its media files, the second conversation with one photo
GalleryExport(shapes) ==
    [ userId |-> Alice,
      mediaFiles |-> <<{"0-weu-d1-aa"}>>,
      conversations |->
          << [id |-> "c1",
              MessageList |-> [k \in 1..Len(shapes) |-> Record(k, k, shapes[k], Alice)]],
             [id |-> "c2",
              MessageList |-> <<Record(9, 9, <<Tag_UriObject, C_Uri>>, Bob)>>] >> ]

\* Most records of a conversation with media
MaxMediaRaw == 2

InitGallery ==
    /\ \E n \in 1..MaxMediaRaw : \E shapes \in [1..n -> GalleryShapes] :
          InitViewOf(GalleryExport(shapes))
    /\ NoHooks
    /\ NoCall
    /\ NoPass

SpecGallery == InitGallery /\ [][NextGallery]_vars

----------------------------------------------------------------------------
(* The rendered list: highlightedMessageIndex and the scroll effect of     *)
(* MessageView.tsx, filteredMessages and virtualItems of MessageList.tsx,  *)
(* groupMessagesByDate of messageProcessor.ts.                             *)

\* DATE_FORMATTER.format(new Date(timestamp)): day, long month and year in
\* en-GB, for a valid timestamp at 10 o'clock UTC read in a zone where that
\* is the same calendar day
DateFormat(timestamp) ==
    IF DateGetTime(timestamp)[1] \div 86400000 = 0
    THEN "1 March 2024"
    ELSE "2 March 2024"

\* grouped.get(dateKey) || [] then push and set: a Map keeps the order in
\* which its keys were first set
GroupPush(grouped, dateKey, msg, at) ==
    IF at = 0
    THEN Append(grouped, [date |-> dateKey, messages |-> <<msg>>])
    ELSE [grouped EXCEPT ![at].messages = Append(@, msg)]

RECURSIVE GroupLoop(_, _)
GroupLoop(msgs, grouped) ==
    IF msgs = <<>> THEN grouped
    ELSE GroupLoop(Tail(msgs),
             GroupPush(grouped, DateFormat(Head(msgs).timestamp), Head(msgs),
                 Least({g \in 1..Len(grouped) :
                          grouped[g].date = DateFormat(Head(msgs).timestamp)})))

groupMessagesByDate(msgs) == GroupLoop(msgs, <<>>)

\* [...filteredMessages].reverse()
reverse(list) == [k \in 1..Len(list) |-> list[Len(list) + 1 - k]]

\* The item pushed for dateMessages[k - 1] while messageIndex is first + k - 1
MessageItem(dateMessages, k, first) ==
    [ type          |-> "message",
      content       |-> dateMessages[k],
      showSender    |-> ~shouldGroupWithPrevious(dateMessages[k],
                            IF k > 1 THEN <<dateMessages[k - 1]>> ELSE <<>>),
      showTimestamp |-> \/ k = Len(dateMessages)
                        \/ ~shouldGroupWithPrevious(dateMessages[k + 1],
                                                    <<dateMessages[k]>>),
      messageIndex  |-> <<first + k - 1>> ]

DateItem(date) ==
    [ type          |-> "date",
      content       |-> date,
      showSender    |-> FALSE,
      showTimestamp |-> FALSE,
      messageIndex  |-> <<>> ]

\* The loop over grouped.entries() from entry g on, messageIndex being first
RECURSIVE ItemsLoop(_, _, _)
ItemsLoop(grouped, g, first) ==
    IF g > Len(grouped) THEN <<>>
    ELSE <<DateItem(grouped[g].date)>> \o
         [k \in 1..Len(grouped[g].messages) |->
              MessageItem(grouped[g].messages, k, first)] \o
         ItemsLoop(grouped, g + 1, first + Len(grouped[g].messages))

\* virtualItems of MessageList for its filteredMessages
virtualItems(filteredMessages) ==
    IF filteredMessages = <<>> THEN <<>>
    ELSE ItemsLoop(groupMessagesByDate(reverse(filteredMessages)), 1, 0)

\* Array.prototype.findIndex for msg.id === id: 0-based, -1 when absent
findIndex(list, id) ==
    IF \E k \in 1..Len(list) : list[k].id = id
    THEN Least({k \in 1..Len(list) : list[k].id = id}) - 1
    ELSE -1

\* highlightedMessageIndex of MessageView: undefined is <<>>
highlightedOf(msgs, query, matching, matchIndex) ==
    IF Len(matching) = 0 \/ matchIndex >= Len(matching) THEN <<>>
    ELSE <<findIndex(filterMessages(msgs, query), msgs[matching[matchIndex + 1] + 1].id)>>

highlightedMessageIndex(msgs, query, matchIndex) ==
    highlightedOf(msgs, query,
        IF trim(query) = <<>> THEN <<>> ELSE findMatchingMessageIndices(msgs, query),
        matchIndex)

\* The id the scroll effect looks up with querySelector and scrolls into
\* view, if any: filteredMessages[highlightedMessageIndex].id
scrollTarget(filteredMessages, highlighted) ==
    IF highlighted = <<>> THEN <<>>
    ELSE IF highlighted[1] < 0 \/ highlighted[1] >= Len(filteredMessages) THEN <<>>
    ELSE <<filteredMessages[highlighted[1] + 1].id>>

\* What MessageView and MessageList render for the shown messages, the
\* query and the current match: the items, each with the isHighlighted of
\* its bubble, and the message scrolled into view
Rendered(items, highlighted, target) ==
    [ items |-> [k \in 1..Len(items) |->
                    [ item          |-> items[k],
                      isHighlighted |-> /\ items[k].messageIndex # <<>>
                                        /\ items[k].messageIndex = highlighted ]],
      highlightedMessageIndex |-> highlighted,
      scrolledTo |-> target ]

RenderOf(msgs, query, filteredMessages, highlighted) ==
    Rendered(virtualItems(filteredMessages), highlighted,
             scrollTarget(filteredMessages, highlighted))

\* A render of the message view with args.messages shown
Render ==
    /\ result = <<>>
    /\ result' = <<RenderOf(args.messages, args.searchQuery,
                       filterMessages(args.messages, args.searchQuery),
                       highlightedMessageIndex(args.messages, args.searchQuery,
                                               args.currentMatchIndex))>>
    /\ UNCHANGED <<args, passVars, hookVars, storeVars, viewVars>>

\* Most messages shown
MaxShown == 3

\* The fields of a ProcessedMessage that the list and the search read
Shape(from, type, timestamp, content) ==
    [ from |-> from, type |-> type, timestamp |-> timestamp,
      content |-> content, displayName |-> <<>> ]

RenderShapes ==
    { Shape(Alice, "text",   "2024-03-01T10:00:00Z", <<"a">>),
      Shape(Alice, "text",   "2024-03-01T10:00:01Z", <<"a">>),
      Shape(Alice, "text",   "2024-03-01T10:00:01Z", <<"b">>),
      Shape(Alice, "text",   "2024-03-01T10:10:00Z", <<"a">>),
      Shape(Bob,   "text",   "2024-03-01T10:00:01Z", <<"a">>),
      Shape(Alice, "system", "2024-03-01T10:00:01Z", <<"a">>),
      Shape(Alice, "text",   "2024-03-02T10:00:00Z", <<"a">>) }

WithId(shape, id) ==
    [ id |-> id, from |-> shape.from, type |-> shape.type,
      timestamp |-> shape.timestamp, content |-> shape.content,
      displayName |-> shape.displayName ]

\* Messages with distinct ids, a query and a current match index
InitRender ==
    /\ \E n \in 0..MaxShown :
          \E shapes \in [1..n -> RenderShapes], query \in { <<>>, <<"a">> },
             matchIndex \in 0..(MaxShown - 1) :
             args = [ messages          |-> [k \in 1..n |-> WithId(shapes[k], k)],
                      searchQuery       |-> query,
                      currentMatchIndex |-> matchIndex ]
    /\ result = <<>>
    /\ NoPass
    /\ NoStore
    /\ NoView

SpecRender == InitRender /\ [][Render]_vars

----------------------------------------------------------------------------
(* Properties *)

\* The position in messages (from 1) of the record output p was pushed for
SourceOf(p) == srcIdx[p] + 1

\* The loop is at a record that is not skipped: the next step classifies it
ClassifiedAt ==
    pc = "loop" /\ i < endIndex /\ messages[i + 1].id \notin skipIds

\* The step pushed exactly one message
PushedOne ==
    /\ Len(processedMessages') = Len(processedMessages) + 1
    /\ SubSeq(processedMessages', 1, Len(processedMessages)) = processedMessages

\* The message the step pushed
Pushed == processedMessages'[Len(processedMessages')]

\* The content path of section 4.3 written out
Sanitized(content) == DOMPurifySanitize(CONTENT_PATTERNS(parseSkypeEmoji(content)))

\* messages[j] is a Translation sent by the viewer and messages[j + 1] a RichText
IsPairAt(j) ==
    /\ j + 1 <= Len(messages)
    /\ messages[j].messagetype = <<"Translation">>
    /\ messages[j].from = userId
    /\ messages[j + 1].messagetype = <<"RichText">>

\* C1: every emitted message's content is output of the allow-list
\* sanitizer, on every dispatch path of processMessage.
C1_ContentIsSanitizerOutput ==
    \A p \in 1..Len(processedMessages) :
        DOMPurifySanitize(processedMessages[p].content) = processedMessages[p].content

\* C2: a Translation sent by the viewer and followed by a RichText gives one
\* output with the RichText's sanitized content, id, timestamp and
\* displayName and the Translation's sender; no later record with the
\* RichText's id gives an output, and the two-record input gives exactly one.
C2_TranslationPair ==
    /\ \A p \in 1..Len(processedMessages) :
          IsPairAt(SourceOf(p)) =>
              /\ processedMessages[p].content =
                     Sanitized(messages[SourceOf(p) + 1].content)
              /\ processedMessages[p].id = messages[SourceOf(p) + 1].id
              /\ processedMessages[p].timestamp =
                     messages[SourceOf(p) + 1].originalarrivaltime
              /\ processedMessages[p].displayName =
                     cleanDisplayName(messages[SourceOf(p) + 1].displayName)
              /\ processedMessages[p].from = messages[SourceOf(p)].from
              /\ \A q \in 1..Len(processedMessages) :
                    SourceOf(q) > SourceOf(p) =>
                        messages[SourceOf(q)].id # messages[SourceOf(p) + 1].id
    /\ (pc = "done" /\ Len(messages) = 2 /\ IsPairAt(1)) =>
          Len(processedMessages) = 1

C2_Witness ==
    /\ pc = "done"
    /\ Len(messages) = 2
    /\ IsPairAt(1)
    /\ messages[1].id # messages[2].id
    /\ messages[1].from # messages[2].from
    /\ messages[1].displayName # <<>>
    /\ messages[2].content = C_Rich
    /\ processedMessages[1].content = <<StrongHi, " and ">>

\* C3: a step at a record whose id is in skipIds pushes nothing and leaves
\* skipIds as it is, whatever the record's messagetype.
C3_SkippedNeverClassified ==
    [][ (pc = "loop" /\ i < endIndex /\ messages[i + 1].id \in skipIds) =>
            (processedMessages' = processedMessages /\ skipIds' = skipIds) ]_vars

\* A Translation with the id of the RichText before it, which an earlier
\* Translation put in skipIds: classifying it would have pushed a message
C3_Witness ==
    /\ pc = "done"
    /\ Len(messages) = 3
    /\ maxMessages = <<>>
    /\ messages[1].messagetype = Tag_Translation
    /\ messages[1].id = 1
    /\ messages[2].messagetype = Tag_RichText
    /\ messages[2].id = 2
    /\ messages[3].messagetype = Tag_Translation
    /\ messages[3].id = 2
    /\ skipIds = {2}
    /\ Len(processedMessages) = 1

\* C4: the outputs were pushed for strictly increasing input indices, one
\* at most for each record, in the order of their records, and there are
\* no more outputs than inputs.
C4_OrderAndCount ==
    /\ Len(srcIdx) = Len(processedMessages)
    /\ Len(processedMessages) <= Len(messages)
    /\ \A p \in 1..Len(processedMessages) :
          /\ srcIdx[p] \in 0..(i - 1)
          /\ \/ processedMessages[p].timestamp =
                    messages[SourceOf(p)].originalarrivaltime
             \/ /\ IsPairAt(SourceOf(p))
                /\ processedMessages[p].timestamp =
                       messages[SourceOf(p) + 1].originalarrivaltime
    /\ \A p, q \in 1..Len(processedMessages) :
          p < q => /\ srcIdx[p] < srcIdx[q]
                   /\ processedMessages[p].timestamp < processedMessages[q].timestamp

C4_Witness ==
    /\ pc = "done"
    /\ Len(messages) = 3
    /\ Len(processedMessages) = 2
    /\ srcIdx = <<0, 2>>

\* first translations[].translation of a payload, the raw content when
\* there is none
TranslatedOrRaw(content) ==
    IF Len(content) >= 3 /\ content[1] = TrOpen /\ content[Len(content)] = TrClose
    THEN SubSeq(content, 2, Len(content) - 1)
    ELSE content

\* C5: a Translation that is not (sent by the viewer and followed by a
\* RichText) pushes one message with its own id, timestamp and sender and
\* the sanitized translation (the sanitized raw content when there is none);
\* skipIds gains the next record's id when that is a RichText and is
\* unchanged otherwise.
C5_TranslationAlone ==
    [][ ( /\ ClassifiedAt
          /\ messages[i + 1].messagetype = <<"Translation">>
          /\ ~IsPairAt(i + 1) ) =>
        ( /\ PushedOne
          /\ Pushed.id = messages[i + 1].id
          /\ Pushed.timestamp = messages[i + 1].originalarrivaltime
          /\ Pushed.from = messages[i + 1].from
          /\ Pushed.content = Sanitized(TranslatedOrRaw(messages[i + 1].content))
          /\ skipIds' = IF /\ i + 2 <= Len(messages)
                           /\ messages[i + 2].messagetype = <<"RichText">>
                        THEN skipIds \cup {messages[i + 2].id}
                        ELSE skipIds ) ]_vars

C5_Witness ==
    /\ i = 1
    /\ Len(messages) = 2
    /\ messages[1].messagetype = Tag_Translation
    /\ messages[1].content = C_TrGood
    /\ messages[1].from # userId
    /\ messages[2].messagetype = Tag_RichText
    /\ messages[2].id = 2
    /\ skipIds = {2}
    /\ Len(processedMessages) = 1
    /\ processedMessages[1].content = <<"hola ", "hi">>
    /\ processedMessages[1].id = 1

\* The step pushed exactly one message of the given kind
PushedKind(type) == PushedOne /\ Pushed.type = type

\* C6: the classification of a record that is not skipped is decided by
\* its messagetype: Media_Album gives nothing, ThreadActivity* a system
\* message or nothing, Event/Call* a call message, Notice and PopCard a
\* notice, InviteFreeRelationshipChanged* a system message, UriObject and
\* Media_Video a media or text message, every other tag one text message.
C6_DispatchTotal ==
    [][ ClassifiedAt =>
        CASE messages[i + 1].messagetype = <<"RichText", "/Media_Album">> ->
                 processedMessages' = processedMessages
          [] IsPrefix(<<"ThreadActivity">>, messages[i + 1].messagetype) ->
                 processedMessages' = processedMessages \/ PushedKind("system")
          [] IsPrefix(<<"Event", "/Call">>, messages[i + 1].messagetype) ->
                 PushedKind("call")
          [] messages[i + 1].messagetype \in {<<"Notice">>, <<"PopCard">>} ->
                 PushedKind("notice")
          [] IsPrefix(<<"InviteFreeRelationshipChanged">>,
                      messages[i + 1].messagetype) ->
                 PushedKind("system")
          [] messages[i + 1].messagetype \in
                 {<<"RichText", "/UriObject">>, <<"RichText", "/Media_Video">>} ->
                 PushedKind("media") \/ PushedKind("text")
          [] OTHER -> PushedKind("text") ]_vars

\* An unknown tag after a ThreadActivity record that gave a system message
C6_Witness ==
    /\ i = 2
    /\ messages[1].messagetype = Tag_AddMember
    /\ messages[2].messagetype = Tag_Poll
    /\ Len(processedMessages) = 2
    /\ processedMessages[1].type = "system"
    /\ processedMessages[2].type = "text"
    /\ processedMessages[2].originalMessageType = Tag_Poll

\* A record whose JSON content does not parse or lacks the expected fields
MalformedNotice(rec) ==
    rec.messagetype = <<"Notice">> /\ rec.content \in {C_JsonBad, C_NoticeEmpty}

MalformedPopCard(rec) ==
    rec.messagetype = <<"PopCard">> /\ rec.content \in {C_JsonBad, C_PopCardEmpty}

MalformedTranslation(rec) ==
    rec.messagetype = <<"Translation">> /\ rec.content \in {C_TrBad, C_TrNone}

\* C7 as stated: a malformed Notice is emitted as "System Notice", a
\* malformed PopCard as "System Message", a malformed Translation with its
\* raw content, and the loop goes on to the next record.
C7_AsStated ==
    [][ ClassifiedAt =>
        /\ MalformedNotice(messages[i + 1]) =>
              PushedOne /\ Pushed.content = <<"System Notice">>
        /\ MalformedPopCard(messages[i + 1]) =>
              PushedOne /\ Pushed.content = <<"System Message">>
        /\ MalformedTranslation(messages[i + 1]) =>
              PushedOne /\ Pushed.content = messages[i + 1].content
        /\ ( \/ MalformedNotice(messages[i + 1])
             \/ MalformedPopCard(messages[i + 1])
             \/ MalformedTranslation(messages[i + 1]) ) =>
              i' = i + 1 /\ pc' = "loop" ]_vars

\* C7: a malformed Notice is emitted as "System Notice", a malformed
\* PopCard as "System Message", a malformed Translation with its raw
\* content passed through the sanitizer (with the sanitized content of the
\* following RichText when it is sent by the viewer and followed by one),
\* and the loop goes on to the next record.
C7_MalformedJson ==
    [][ ClassifiedAt =>
        /\ MalformedNotice(messages[i + 1]) =>
              PushedOne /\ Pushed.content = <<"System Notice">>
        /\ MalformedPopCard(messages[i + 1]) =>
              PushedOne /\ Pushed.content = <<"System Message">>
        /\ MalformedTranslation(messages[i + 1]) =>
              /\ PushedOne
              /\ Pushed.content = IF IsPairAt(i + 1)
                                  THEN Sanitized(messages[i + 2].content)
                                  ELSE Sanitized(messages[i + 1].content)
        /\ ( \/ MalformedNotice(messages[i + 1])
             \/ MalformedPopCard(messages[i + 1])
             \/ MalformedTranslation(messages[i + 1]) ) =>
              i' = i + 1 /\ pc' = "loop" ]_vars

\* A malformed Translation with markup, then a malformed Notice
C7_Witness ==
    /\ pc = "done"
    /\ Len(messages) = 2
    /\ messages[1].messagetype = Tag_Translation
    /\ messages[1].content = C_TrBad
    /\ messages[1].from # userId
    /\ messages[2].messagetype = Tag_Notice
    /\ messages[2].content = C_JsonBad
    /\ Len(processedMessages) = 2
    /\ processedMessages[1].content = <<"{\"translations\":">>
    /\ processedMessages[2].content = <<"System Notice">>

\* C8: every emitted message of kind system has displayName null and
\* isOwner false, whoever sent it and whatever the perspective.
C8_SystemKind ==
    \A p \in 1..Len(processedMessages) :
        processedMessages[p].type = "system" =>
            /\ processedMessages[p].displayName = <<>>
            /\ processedMessages[p].isOwner = FALSE

\* A system message for a record the viewer sent under a display name
C8_Witness ==
    \E p \in 1..Len(processedMessages) :
        /\ processedMessages[p].type = "system"
        /\ processedMessages[p].from = userId
        /\ ~swapRoles
        /\ messages[SourceOf(p)].displayName # <<>>

\* C9: every emitted message that does not come from handleSystemMessage
\* has isOwner = (from = userId) XOR swapRoles, from being the sender stored
\* on the emitted message.
C9_IsOwner ==
    \A p \in 1..Len(processedMessages) :
        processedMessages[p].type \notin {"system", "notice"} =>
            processedMessages[p].isOwner =
                ((processedMessages[p].from = userId) # swapRoles)

\* A pair output under the swapped perspective, the RichText sent by the
\* other participant
C9_Witness ==
    /\ swapRoles
    /\ Len(messages) = 2
    /\ IsPairAt(1)
    /\ messages[2].from # userId
    /\ Len(processedMessages) = 1
    /\ processedMessages[1].from = userId
    /\ processedMessages[1].isOwner = FALSE

\* A record of one of the two media tags
MediaTagged(rec) ==
    rec.messagetype \in {<<"RichText", "/UriObject">>, <<"RichText", "/Media_Video">>}

\* The media id cannot be resolved: no id in the content, no store, or a
\* store without the id
Unresolvable(rec) ==
    \/ extractMediaId(rec.content) = <<>>
    \/ mediaFiles = <<>>
    \/ extractMediaId(rec.content)[1][1] \notin mediaFiles[1]

\* C10 as stated: a media record with an unresolvable id is emitted as a
\* text message without mediaUrl that carries the filename and size
\* fallback; never dropped, never of kind media.
C10_AsStated ==
    [][ ( /\ ClassifiedAt
          /\ MediaTagged(messages[i + 1])
          /\ Unresolvable(messages[i + 1]) ) =>
        ( /\ PushedKind("text")
          /\ Pushed.mediaUrl = <<>>
          /\ Pushed.content = parseMediaFileInfo(messages[i + 1].content) ) ]_vars

\* C10: a media record is never dropped.  Without an id in the content or
\* without a store it is emitted as a text message without mediaUrl that
\* carries the filename and size fallback; with an id and a store it is
\* emitted as a media message whose mediaUrl is the id, whether or not the
\* store holds the id.
C10_MediaFallback ==
    [][ (ClassifiedAt /\ MediaTagged(messages[i + 1])) =>
        IF extractMediaId(messages[i + 1].content) = <<>> \/ mediaFiles = <<>>
        THEN /\ PushedKind("text")
             /\ Pushed.mediaUrl = <<>>
             /\ Pushed.content = parseMediaFileInfo(messages[i + 1].content)
        ELSE /\ PushedKind("media")
             /\ Pushed.mediaUrl = extractMediaId(messages[i + 1].content) ]_vars

\* A picture without an id, emitted as text, then a video whose id the
\* store lacks, emitted as media
C10_Witness ==
    /\ pc = "done"
    /\ Len(messages) = 2
    /\ messages[1].messagetype = Tag_UriObject
    /\ messages[1].content = C_UriNoId
    /\ messages[2].messagetype = Tag_MediaVideo
    /\ messages[2].content = C_Video
    /\ mediaFiles = << {"0-weu-d1-aa"} >>
    /\ Len(processedMessages) = 2
    /\ processedMessages[1].type = "text"
    /\ processedMessages[1].content = <<"[camera] ", EmOpen, ImgOnError, EmClose>>
    /\ processedMessages[2].type = "media"
    /\ processedMessages[2].mediaUrl = << <<"0-weu-d2-bb">> >>

\* The title and the text of a well-formed card payload
CardTitle(content) == ParseCard(content, NoticeOpen, NoticeClose).title
CardText(content)  == ParseCard(content, NoticeOpen, NoticeClose).text

\* C11: a Notice whose attachment content has title and text is emitted as
\* "{title}: {text}", with one of the two as that one, with neither as
\* "System Notice".
C11_NoticeTitleText ==
    [][ ( /\ ClassifiedAt
          /\ messages[i + 1].messagetype = <<"Notice">>
          /\ ParseCard(messages[i + 1].content, NoticeOpen, NoticeClose).ok ) =>
        ( /\ PushedOne
          /\ Pushed.content =
               IF /\ CardTitle(messages[i + 1].content) # <<>>
                  /\ CardText(messages[i + 1].content) # <<>>
               THEN CardTitle(messages[i + 1].content) \o <<": ">> \o
                    CardText(messages[i + 1].content)
               ELSE IF CardTitle(messages[i + 1].content) # <<>>
               THEN CardTitle(messages[i + 1].content)
               ELSE IF CardText(messages[i + 1].content) # <<>>
               THEN CardText(messages[i + 1].content)
               ELSE <<"System Notice">> ) ]_vars

\* The members of a list in first-occurrence order, each once
RECURSIVE Distinct(_)
Distinct(names) ==
    IF names = <<>> THEN <<>>
    ELSE <<Head(names)>> \o
         Distinct(SelectSeq(Tail(names), LAMBDA n : n # Head(names)))

\* The non-empty member names of an AddMember content, colon prefixes removed
MemberNames(content) ==
    SelectSeq([k \in 1..Len(TagMatchAll(content, TargetOpen, TargetClose, 1)) |->
                  LastColonPart(TagMatchAll(content, TargetOpen, TargetClose, 1)[k])],
              NonEmpty)

\* C12: an AddMember record is emitted as "Added {list} to the
\* conversation", {list} being the ", "-join of the distinct non-empty member
\* names in first-occurrence order; it is dropped when there is no name.
C12_AddMemberDistinct ==
    [][ ( /\ ClassifiedAt
          /\ messages[i + 1].messagetype = <<"ThreadActivity", "/AddMember">> ) =>
        IF MemberNames(messages[i + 1].content) = <<>>
        THEN processedMessages' = processedMessages
        ELSE /\ PushedOne
             /\ Pushed.content =
                    <<"Added ">> \o
                    Join(Distinct(MemberNames(messages[i + 1].content)), ", ") \o
                    <<" to the conversation">> ]_vars

\* The durations, in tenths of a second, of all participant segments of a
\* call content, repeated identities included
SegmentSeconds(content) ==
    { parseFloat(<<content[q + 1]>>)[1] :
        q \in { r \in 1..(Len(content) - 1) :
                  /\ content[r] = DurationOpen
                  /\ parseFloat(<<content[r + 1]>>) # <<>> } }

\* "{M}m {S}s" from one minute on, "{S}s" below, for d tenths of a second
DurationText(d) ==
    IF d >= 600
    THEN ToString(d \div 600) \o "m " \o ToString((d % 600) \div 10) \o "s"
    ELSE ToString(d \div 10) \o "s"

\* The record behind output p is an ended call
EndedCallAt(p) ==
    /\ IsPrefix(Prefix_EventCall, messages[SourceOf(p)].messagetype)
    /\ toLowerCase(PartlistTypeMatch(messages[SourceOf(p)].content)) = <<"ended">>

\* C13: the duration reported for a call is the greatest duration of all
\* participant segments, segments of a repeated identity included, written
\* "{M}m {S}s" with M = floor(d/60) and S = floor(d mod 60) from 60 seconds
\* on and "{S}s" below.
C13_CallDuration ==
    \A p \in 1..Len(processedMessages) :
        ( /\ EndedCallAt(p)
          /\ Greatest(SegmentSeconds(messages[SourceOf(p)].content) \cup {0}) > 0 ) =>
            IsPrefix(<< "Call ended", Bullet,
                        DurationText(Greatest(
                            SegmentSeconds(messages[SourceOf(p)].content) \cup {0})) >>,
                     processedMessages[p].content)

\* Segments of 5, 42 and 17 seconds, the longest on a repeated identity,
\* reported as "42s"
C13_Witness ==
    /\ pc = "done"
    /\ Len(processedMessages) = 1
    /\ messages[1].content =
           CallContent(<<"Ended">>,
               << PartSegment(Alice, <<>>, <<"5">>),
                  PartSegment(Alice, <<>>, <<"42">>),
                  PartSegment(Bob, <<>>, <<"17">>) >>)
    /\ processedMessages[1].content[3] = "42s"

\* A participant identity and an identity name the same person: equal
\* without regard to case, with or without the numeric prefix
SamePerson(identity, who) ==
    \/ toLowerCase(identity) = toLowerCase(who)
    \/ cleanLower(identity) = cleanLower(who)

IsSuffix(x, t) == Len(x) <= Len(t) /\ SubSeq(t, Len(t) - Len(x) + 1, Len(t)) = x

\* The positions of the participants other than the exported user
Counterparts(participantData) ==
    { k \in 1..Len(participantData) :
        ~SamePerson(participantData[k].identity, userId) }

\* The identity of the effective viewer
EffectiveViewer(participantData) ==
    IF swapRoles /\ Counterparts(participantData) # {}
    THEN participantData[Least(Counterparts(participantData))].identity
    ELSE userId

\* The label the claim gives to a participant
LabelOf(participant, participantData) ==
    IF /\ swapRoles
       /\ Counterparts(participantData) # {}
       /\ SamePerson(participant.identity, userId)
    THEN participant.name
    ELSE IF SamePerson(participant.identity, EffectiveViewer(participantData))
    THEN <<"You">>
    ELSE participant.name

LabelsOf(participantData) ==
    [k \in 1..Len(participantData) |-> LabelOf(participantData[k], participantData)]

\* C14: in the participant list of a call event the participant matching
\* the effective viewer is labelled "You": the exported user without
\* perspective swap, the counterpart with it, and then the exported user is
\* shown by name whenever a counterpart exists.
C14_ViewerIsYou ==
    \A p \in 1..Len(processedMessages) :
        ( /\ IsPrefix(Prefix_EventCall, messages[SourceOf(p)].messagetype)
          /\ extractCallDetails(messages[SourceOf(p)].content).participants # <<>> ) =>
            IsSuffix(<<Bullet>> \o
                     Join(LabelsOf(extractCallDetails(
                              messages[SourceOf(p)].content).participants), ", "),
                     processedMessages[p].content)

\* Alice's export seen from Bob's side: Alice by name, Bob as "You"
C14_Witness ==
    /\ pc = "done"
    /\ swapRoles
    /\ userId = Alice
    /\ Len(processedMessages) = 1
    /\ messages[1].content =
           CallContent(<<"Started">>,
               << PartSegment(<<"8:", "alice">>, <<"Alice">>, <<>>),
                  PartSegment(<<"8:", "bob">>, <<"Bob">>, <<>>) >>)
    /\ processedMessages[1].content =
           <<"Call started", Bullet, "Alice", ", ", "You">>

\* The distance of two timestamps is defined and below the threshold
CloseInTime(a, b) ==
    /\ DateGetTime(a) # <<>>
    /\ DateGetTime(b) # <<>>
    /\ DateGetTime(a)[1] - DateGetTime(b)[1] < GROUP_TIME_THRESHOLD
    /\ DateGetTime(b)[1] - DateGetTime(a)[1] < GROUP_TIME_THRESHOLD

\* C15: shouldGroupWithPrevious(current, previous) is true exactly when
\* previous exists, sender and kind agree, neither is of kind System and the
\* timestamps are less than GROUP_TIME_THRESHOLD apart; so a System message
\* never groups, and exchanging the two messages gives the same answer.
C15_GroupRule ==
    result # <<>> =>
        /\ result[1] =
             ( /\ args.previous # <<>>
               /\ args.current.from = args.previous[1].from
               /\ args.current.type = args.previous[1].type
               /\ args.current.type # "system"
               /\ args.previous[1].type # "system"
               /\ CloseInTime(args.current.timestamp, args.previous[1].timestamp) )
        /\ args.current.type = "system" => ~result[1]
        /\ args.previous # <<>> =>
             /\ args.previous[1].type = "system" => ~result[1]
             /\ result[1] = shouldGroupWithPrevious(args.previous[1], <<args.current>>)

\* Two system messages of one sender one second apart, not grouped
C15_Witness ==
    /\ result = <<FALSE>>
    /\ args.previous # <<>>
    /\ args.current.type = "system"
    /\ args.previous[1].type = "system"
    /\ args.current.from = args.previous[1].from
    /\ args.current.timestamp = "2024-03-01T10:00:01Z"
    /\ args.previous[1].timestamp = "2024-03-01T10:00:00Z"

\* Both searches returned
Searched ==
    /\ DOMAIN result = {"filterMessages", "findMatchingMessageIndices"}
    /\ result.filterMessages # <<>>
    /\ result.findMatchingMessageIndices # <<>>

\* The query after trim() has no character left
Blank(query) == \A k \in 1..Len(query) : query[k] = " "

\* The match rule: the query, trimmed and without regard to case, occurs in
\* the text of the content or in the display name; a blank query matches
Accepted(msg, query) ==
    \/ Blank(query)
    \/ includes(toLowerCase(stripHtmlForSearch(msg.content)),
                toLowerCase(trim(query)))
    \/ /\ msg.displayName # <<>>
       /\ includes(toLowerCase(msg.displayName[1]), toLowerCase(trim(query)))

\* indices lists, in ascending order, exactly the accepted messages
ListsAccepted(indices, msgs, query) ==
    /\ \A k \in 1..(Len(indices) - 1) : indices[k] < indices[k + 1]
    /\ { indices[k] : k \in 1..Len(indices) } =
           { j \in 0..(Len(msgs) - 1) : Accepted(msgs[j + 1], query) }

\* C16 as stated: for every query findMatchingMessageIndices lists in
\* ascending order exactly the messages the match rule accepts, a blank
\* query matching every message, and is as long as filterMessages' result.
C16_AsStated ==
    Searched =>
        /\ ListsAccepted(result.findMatchingMessageIndices[1],
                         args.messages, args.query)
        /\ Len(result.findMatchingMessageIndices[1]) = Len(result.filterMessages[1])

\* C16 (amended): for every query that is not blank
\* findMatchingMessageIndices lists in ascending order exactly the messages
\* the match rule accepts and is as long as filterMessages' result; for a
\* blank query it is empty while filterMessages returns every message.
C16_MatchingIndices ==
    Searched =>
        IF Blank(args.query)
        THEN /\ result.findMatchingMessageIndices[1] = <<>>
             /\ result.filterMessages[1] = args.messages
        ELSE /\ ListsAccepted(result.findMatchingMessageIndices[1],
                              args.messages, args.query)
             /\ Len(result.findMatchingMessageIndices[1]) =
                    Len(result.filterMessages[1])

\* The query "AB" finds the second of two messages through its markup-free
\* text "ab"
C16_Witness ==
    /\ Searched
    /\ args.query = <<"A", "B">>
    /\ Len(args.messages) = 2
    /\ args.messages[1].content = <<>>
    /\ args.messages[1].displayName = <<>>
    /\ args.messages[2].content = <<"<", "b", ">", "A", "b", "<", "/", "b", ">">>
    /\ result.findMatchingMessageIndices[1] = <<1>>

\* The <...> spans of a text as pairs <<open, close>>, found from left to
\* right from position from on: each from a "<" to the next ">" after it,
\* something between the two
RECURSIVE SpansFrom(_, _)
SpanAt(text, open) ==
    IF open = 0 THEN {}
    ELSE {<<open, Least({q \in (open + 1)..Len(text) : text[q] = ">"})>>} \cup
         SpansFrom(text, Least({q \in (open + 1)..Len(text) : text[q] = ">"}) + 1)

SpansFrom(text, from) ==
    SpanAt(text,
        Least({o \in from..Len(text) :
                 /\ text[o] = "<"
                 /\ Least({q \in (o + 1)..Len(text) : text[q] = ">"}) >= o + 2}))

\* The text without the inserted wrappers
Unmarked(text) == SelectSeq(text, LAMBDA t : t \notin {MarkOpen, MarkClose})

\* The wrapper at position k of the output stands inside a span of the input
InsideTag(html, output, k) ==
    \E span \in SpansFrom(html, 1) :
        /\ span[1] <= Len(Unmarked(SubSeq(output, 1, k)))
        /\ Len(Unmarked(SubSeq(output, 1, k))) < span[2]

\* The number of positions of a text that hold one of the given tokens
Count(text, tokens) == Cardinality({k \in 1..Len(text) : text[k] \in tokens})

\* C17: highlightSearchMatch inserts mark wrappers only into text outside
\* <...> spans: every tag of the input is in the output, unchanged and in the
\* same order, and the output has the input's number of '<' plus 2 for each
\* highlighted run.
C17_TagsUntouched ==
    result # <<>> =>
        /\ Unmarked(result[1]) = args.html
        /\ \A k \in 1..Len(result[1]) :
              result[1][k] \in {MarkOpen, MarkClose} =>
                  ~InsideTag(args.html, result[1], k)
        /\ Count(result[1], {"<", MarkOpen, MarkClose}) =
               Count(args.html, {"<"}) + 2 * Count(result[1], {MarkOpen})

\* What getProcessedMessages returns in the current state
Cached(conversationId, isSwapped) ==
    getProcessedMessages(processedMessagesCache, conversationId, isSwapped)

\* The step is the call cacheProcessedMessages(conversationId, m, isSwapped)
CachingStep(conversationId, isSwapped) ==
    /\ args'.call = "cacheProcessedMessages"
    /\ args'.conversationId = conversationId
    /\ args'.isSwapped = isSwapped
    /\ processedMessagesCache' # processedMessagesCache

\* C20: the cache is keyed by (conversationId, perspectiveSwapped).  After
\* cacheProcessedMessages(c, m, s), getProcessedMessages(c, s) returns m,
\* the entry of (c, not s) and the entries of all other conversations are as
\* before; getProcessedMessages returns null for a key never cached or
\* invalidated (by toggleRoleSwap of its conversation, by setExportData).
C20_CacheKeyed ==
    /\ \A c \in ConversationIds, s \in BOOLEAN : Cached(c, s) = <<>>
    /\ [][ \A c \in ConversationIds, s \in BOOLEAN :
             /\ CachingStep(c, s) =>
                   /\ Cached(c, s)' = <<args'.messages>>
                   /\ Cached(c, ~s)' = Cached(c, ~s)
                   /\ \A d \in ConversationIds \ {c}, t \in BOOLEAN :
                         Cached(d, t)' = Cached(d, t)
             /\ (args'.call = "toggleRoleSwap" /\ args'.conversationId = c) =>
                   Cached(c, s)' = <<>>
             /\ args'.call = "setExportData" => Cached(c, s)' = <<>>
             /\ (Cached(c, s) = <<>> /\ Cached(c, s)' # <<>>) => CachingStep(c, s)
             /\ args'.call = "getProcessedMessages" =>
                   result' = getProcessedMessages(processedMessagesCache,
                                 args'.conversationId, args'.isSwapped) ]_vars

\* Both perspectives of c1 hold different lists, the normal one empty, c2
\* holds none, and the swapped list of c1 has just been read
C20_Witness ==
    /\ Cached("c1", FALSE) = << <<>> >>
    /\ Cached("c1", TRUE) = << <<[id |-> 2], [id |-> 1]>> >>
    /\ Cached("c2", FALSE) = <<>>
    /\ Cached("c2", TRUE) = <<>>
    /\ args = [call |-> "getProcessedMessages", conversationId |-> "c1",
               isSwapped |-> TRUE]
    /\ result = << <<[id |-> 2], [id |-> 1]>> >>

\* C18: match navigation wraps around and stays in range.  With n > 0
\* matches 'next' moves the current match index i to (i+1) mod n and
\* 'previous' to (i-1) mod n, and after any sequence of search, navigation,
\* load-more and conversation or perspective changes the index is in [0, n)
\* whenever n > 0.
C18_NavigationInRange ==
    /\ [](Len(matchingIndices) > 0 =>
            (0 <= currentMatchIndex /\ currentMatchIndex < Len(matchingIndices)))
    /\ [][ (args'.call = "handleNavigateMatch" /\ currentMatchIndex' # currentMatchIndex) =>
             currentMatchIndex' =
                 IF args'.direction = "next"
                 THEN (currentMatchIndex + 1) % Len(matchingIndices)
                 ELSE (currentMatchIndex - 1) % Len(matchingIndices) ]_vars

----------------------------------------------------------------------------
(* C19 *)

\* The outputs that earlier calls with the perspective of this call returned
EarlierOutputs ==
    { returned[k].output : k \in { j \in 1..Len(returned) :
                                      returned[j].swapRoles = swapRoles } }

\* C19: processMessages is deterministic and its passes are isolated.  Every
\* call starts its loop with an empty skipIds, and when a call returns, its
\* output equals the output of every earlier call on the same records, viewer,
\* media store and limit with the same perspective, whichever perspectives
\* the calls in between had.
C19_PassesIsolated ==
    /\ (pc = "loop" /\ i = 0) => skipIds = {}
    /\ pc = "done" => EarlierOutputs \subseteq {processedMessages}

\* A third call has returned after a call with the other perspective that
\* returned something else, and the calls paired records (skipIds is not empty)
C19_Witness ==
    /\ pc = "done"
    /\ Len(returned) = 2
    /\ returned[1].swapRoles = swapRoles
    /\ returned[2].swapRoles # swapRoles
    /\ returned[2].output # processedMessages
    /\ returned[1].output = processedMessages
    /\ skipIds # {}

----------------------------------------------------------------------------
(* C21 *)

\* C21: when processMessages is given a maxMessages value k >= 0, the loop
\* runs over at most the first min(k, messages.length) records and the output
\* has at most k messages.
C21_LimitBoundsOutput ==
    (pc = "done" /\ maxMessages # <<>>) =>
        /\ i <= Min(maxMessages[1], Len(messages))
        /\ Len(processedMessages) <= maxMessages[1]

\* The same for a limit k > 0
PositiveLimitBoundsOutput ==
    (pc = "done" /\ maxMessages # <<>> /\ maxMessages[1] > 0) =>
        /\ i <= Min(maxMessages[1], Len(messages))
        /\ Len(processedMessages) <= maxMessages[1]

----------------------------------------------------------------------------
(* C22 *)

\* The matches of the rendered messages and the message of the current match
RenderMatches == findMatchingMessageIndices(args.messages, args.searchQuery)
CurrentMatch == args.messages[RenderMatches[args.currentMatchIndex + 1] + 1]

\* The ids of the bubbles rendered with isHighlighted
HighlightedBubbles ==
    { result[1].items[k].item.content.id :
        k \in { j \in 1..Len(result[1].items) : result[1].items[j].isHighlighted } }

\* A search is active and the current match index is one of the matches
SearchActive ==
    /\ result # <<>>
    /\ trim(args.searchQuery) # <<>>
    /\ args.currentMatchIndex < Len(RenderMatches)

\* C22: while a search is active, the bubble rendered as highlighted is the
\* message at matchingIndices[currentMatchIndex], which is also the message
\* that the view scrolls into view.
C22_HighlightIsCurrentMatch ==
    SearchActive =>
        /\ HighlightedBubbles = {CurrentMatch.id}
        /\ result[1].scrolledTo = <<CurrentMatch.id>>

\* The message scrolled into view alone is the current match
ScrollIsCurrentMatch ==
    SearchActive => result[1].scrolledTo = <<CurrentMatch.id>>

----------------------------------------------------------------------------
(* C27 *)

\* The rendered items
Items == [k \in 1..Len(result[1].items) |-> result[1].items[k].item]

\* Items k - 1 and k are messages of one date group and k is grouped with
\* k - 1: k is a later message of a run of grouped messages
LaterInRun(k) ==
    /\ k > 1
    /\ Items[k].type = "message"
    /\ Items[k - 1].type = "message"
    /\ shouldGroupWithPrevious(Items[k].content, <<Items[k - 1].content>>)

\* Item k is the last message of its run
LastOfRun(k) ==
    /\ Items[k].type = "message"
    /\ ~(k < Len(Items) /\ LaterInRun(k + 1))

\* C27: in every maximal run of consecutively grouped messages of a date
\* group, the sender and the timestamp are shown only on the first message:
\* showSender and showTimestamp are both false on every later message.
C27_FirstOfRunOnly ==
    result # <<>> =>
        \A k \in 1..Len(Items) :
            LaterInRun(k) => ~Items[k].showSender /\ ~Items[k].showTimestamp

\* The sender is shown exactly on the first message of a run and the
\* timestamp exactly on the last
SenderFirstTimestampLast ==
    result # <<>> =>
        \A k \in 1..Len(Items) :
            Items[k].type = "message" =>
                /\ Items[k].showSender = ~LaterInRun(k)
                /\ Items[k].showTimestamp = LastOfRun(k)

----------------------------------------------------------------------------
(* C23 *)

\* processMessages over the loaded window of the selected conversation
\* with its perspective
ProcessedWindow(conversation, swapped) ==
    processMessages(conversation.MessageList, exportData[1].userId, swapped,
                    exportData[1].mediaFiles,
                    <<Min(loadedMessageCount, Len(conversation.MessageList))>>)

\* C23: the message list that useMessageProcessing displays for a loaded
\* window of N raw records equals processMessages(records, viewer, swapped,
\* media, N), whether it was computed or served from the cache, after any
\* sequence of load-more, conversation switches and returns.
C23_ShownIsProcessedWindow ==
    viewMessages = ProcessedWindow(ConversationOf(selectedConversationId[1]),
                                   swappedRoles[selectedConversationId[1]])

----------------------------------------------------------------------------
(* C28 *)

\* The pass has a limit k with 0 < k < messages.length
ProperLimit ==
    /\ maxMessages # <<>>
    /\ 0 < maxMessages[1]
    /\ maxMessages[1] < Len(messages)

\* Output p has the id and the timestamp of one of the first k records
FromWindow(p, k) ==
    \E j \in 1..k :
        /\ processedMessages[p].id = messages[j].id
        /\ processedMessages[p].timestamp = messages[j].originalarrivaltime

\* C28: with maxMessages = k and 0 < k < messages.length, every emitted
\* message takes its id, timestamp and content from one of the first k
\* records: no record at index >= k contributes to the output.
C28_NoLookaheadPastLimit ==
    ProperLimit =>
        \A p \in 1..Len(processedMessages) : FromWindow(p, maxMessages[1])

----------------------------------------------------------------------------
(* C29 *)

\* The ids of a list of records or messages are pairwise distinct
DistinctIds(list) ==
    \A p, q \in 1..Len(list) : p # q => list[p].id # list[q].id

\* C29: if the ids of the input records are pairwise distinct, the ids of
\* the messages emitted by one pass are pairwise distinct, also when a
\* viewer-sent Translation record emits a message under the id of the
\* RichText record that follows it.
C29_DistinctOutputIds ==
    DistinctIds(messages) => DistinctIds(processedMessages)

\* A returned pass over records with distinct ids in which a viewer-sent
\* Translation emitted a message under the id of the RichText record after
\* it, and another message was emitted after that
C29_Witness ==
    /\ pc = "done"
    /\ DistinctIds(messages)
    /\ Len(messages) = 3
    /\ messages[1].messagetype = Tag_Translation
    /\ messages[1].from = userId
    /\ messages[2].messagetype = Tag_RichText
    /\ Len(processedMessages) = 2
    /\ processedMessages[1].id = messages[2].id
    /\ processedMessages[2].id = messages[3].id

----------------------------------------------------------------------------
(* C30 *)

\* How many participants the text of a call event labels "You"
YouCount(content) == Cardinality({k \in 1..Len(content) : content[k] = "You"})

\* C30: in the text produced for a call event at most one participant is
\* labelled "You", whatever the participant identities, the viewer id and
\* the perspective.
C30_AtMostOneYou ==
    \A p \in 1..Len(processedMessages) :
        IsPrefix(Prefix_EventCall, messages[SourceOf(p)].messagetype) =>
            YouCount(processedMessages[p].content) <= 1

----------------------------------------------------------------------------
(* C24, C25 *)

\* The loads started and not yet committed
PendingLoads == {k \in 1..Len(transitions) : transitions[k].isLoadingMore}

\* C24: isLoadingMore prevents overlapping loads: once loadMoreMessages has
\* been invoked no further load is started until the flag has been set and
\* cleared again, so a loading episode adds at most one LOAD_MORE_INCREMENT
\* to loadedMessageCount, under every interleaving of scroll events with the
\* deferred commits.
C24_NoOverlappingLoads == Cardinality(PendingLoads) <= 1

\* C25: whenever isLoadingMore becomes true it eventually becomes false
\* again, and a restoreScroll loop runs at most MAX_SCROLL_FRAMES frames;
\* under every interleaving of load-more with conversation selection and
\* perspective toggling.
C25_LoadingEnds ==
    /\ [](\A c \in 1..Len(restoreChains) :
              restoreChains[c].frameCount < MAX_SCROLL_FRAMES)
    /\ (isLoadingMore ~> ~isLoadingMore)

\* A restoreScroll loop never runs more than MAX_SCROLL_FRAMES frames
RestoreBounded ==
    \A c \in 1..Len(restoreChains) : restoreChains[c].frameCount < MAX_SCROLL_FRAMES

----------------------------------------------------------------------------
(* C26 *)

\* The media items of a cache entry, in order; none for no entry
MediaItemsOf(processed) ==
    IF processed = <<>> THEN <<>>
    ELSE ChunkItems(processed[1], 0, Len(processed[1]))

\* C26: whenever the media gallery is enabled and no chunked extraction is
\* in flight, mediaItems is, in order, the media messages with a mediaRef of
\* the cached processed list of the selected conversation and perspective.
C26_GalleryShowsSelected ==
    (mediaGalleryOpened /\ extractions = <<>>) =>
        mediaItems = MediaItemsOf(getProcessedMessages(processedMessagesCache,
                          selectedConversationId[1],
                          swappedRoles[selectedConversationId[1]]))

====
